---- MODULE Spec2Model ----
(***************************************************************************)
(* The schedule execution engine of tvplayer.py: run_channel_day and the   *)
(* functions it calls (play_video, run_filler_break, check_for_override),  *)
(* as one sequential program with an explicit call stack, together with    *)
(* its environment: the wall clock, the external player process and the    *)
(* peer process that writes the override file; around it main_loop, the    *)
(* host of the engine, and channel_change.py, the command that asks for    *)
(* another channel.                                                        *)
(*                                                                         *)
(* Time is counted in ticks of half a second, so that the code's           *)
(* comparisons with 1.0 s have values on both sides and in between.        *)
(* Schedule positions are 1-based here (0-based in the source).            *)
(***************************************************************************)
EXTENDS Integers, Naturals, Sequences, FiniteSets, TLC

Sec(n) == 2 * n

Min(a, b) == IF a <= b THEN a ELSE b

\* ---------------------------------------------------------------- constants

\* a main show played however short its window
PlayAnyWindow == Sec(0)

MIN_PLAYBACK_TIME == Sec(5)

VLC_TIMEOUT_BUFFER == Sec(5)

OVERRIDE_INTERRUPTED == 0 - Sec(1)

OVERRIDE_CHECK_INTERVAL == Sec(1)

\* max_runtime_seconds=7200 of the play_video call in check_for_override
OVERRIDE_MAX_RUNTIME == Sec(7200)

\* 'duration': 3600.0 of override_data (a placeholder)
OVERRIDE_DURATION == Sec(3600)

\* remaining_time=300 passed by the slot-start poll (unused by the callee)
SLOT_POLL_DUMMY == Sec(300)

\* time.sleep(5) after a failed filler clip
FILLER_FAIL_SLEEP == Sec(5)

\* the 1.0 s tolerance of run_channel_day (time_to_start, time_available,
\* time_remaining_in_slot)
SLOT_TOLERANCE == Sec(1)

\* the 1.0 s guards of run_filler_break (duration_seconds, time_left)
FILLER_MIN_WINDOW == Sec(1)

\* -------------------------------------------------------------------- bounds

\* override files the peer process writes, during one run, while no requested
\* video is playing
MaxOverrides == 1

\* the longest a viewer-requested video plays before it exits, in seconds
MaxOverridePlay == 2

\* the latest an early exit of a scheduled player happens, in seconds
MaxEarlyExit == 1

\* override files written while a requested video is playing, during one run
MaxNestedOverrides == 1

\* the times in a row os.remove fails on one override file
MaxRemoveFailures == 1

\* ------------------------------------------------------------------- inputs

Seg(s, slot, dur, xml) ==
    [start_time |-> s, slot_duration_total |-> slot, duration |-> dur,
     filler_xml_path |-> xml]

\* filler_xml_path values: a manifest that loads, one that does not exist,
\* and JSON null (the schedule generator's value for NO CONTENT / Off Air)
ADS == "ads/ok.xml"

MISSING == "ads/default_ads.xml"

NULL == "null"

\* a manifest whose only clip has <length>0</length>
ZERO == "ads/zero.xml"

\* a <file> element without name attribute, or without <length> child
NO_ATTR == "no attribute"

NO_ELEM == "no element"

\* a <file name=...><length>...</length></file> element of a manifest
FileElem(name, length) == [name |-> name, length |-> length]

\* a manifest on disk: whether os.path.exists finds it, whether ET.parse
\* accepts it, and the <file> children of its root in file order
Manifest(files) == [exists |-> TRUE, wellformed |-> TRUE, files |-> files]

NoManifest == [exists |-> FALSE, wellformed |-> FALSE, files |-> <<>>]

BrokenManifest == [exists |-> TRUE, wellformed |-> FALSE, files |-> <<>>]

\* the manifest that loads: clips of 1 s and 100 s
AdsManifest == Manifest(<<FileElem("a.mp4", "1"), FileElem("b.mp4", "100")>>)

\* the manifest of the zero-length clip
ZeroManifest == Manifest(<<FileElem("z.mp4", "0")>>)

\* the manifest files under the content base path
ManifestAt(path) ==
    IF path = ADS THEN AdsManifest
    ELSE IF path = ZERO THEN ZeroManifest
    ELSE NoManifest

\* the most <file> elements of a manifest given to the loader on its own
MaxRecords == 2

\* name attributes and <length> texts of those elements
RecordNames == {"a.mp4", "", NO_ATTR}

RecordLengths == {"1", "12.5", "abc", "", NO_ELEM}

RecordKinds == {FileElem(n, l) : n \in RecordNames, l \in RecordLengths}

Manifests ==
    {NoManifest, BrokenManifest}
    \cup UNION {{Manifest(f) : f \in [1..n -> RecordKinds]} : n \in 0..MaxRecords}

\* the section 8 scenario: one segment 10:00:00-10:30:00, content 1500 s
SchedEndToEnd == <<Seg(Sec(36000), Sec(1800), Sec(1500), ADS)>>

\* two back-to-back segments; the first has filler time after its content
SchedPair == <<Seg(Sec(10), Sec(8), Sec(6), ADS), Seg(Sec(18), Sec(11), Sec(9), MISSING)>>

\* a gap before the second segment, whose content is longer than its slot
SchedGap == <<Seg(Sec(10), Sec(6), Sec(6), MISSING), Seg(Sec(19), Sec(6), Sec(9), ADS)>>

\* a programme followed by a NO CONTENT slot as the generator emits it
SchedNoContent == <<Seg(Sec(10), Sec(6), Sec(5), ADS), Seg(Sec(16), Sec(3), 0, NULL)>>

\* an Off Air slot as the generator emits it: path N/A, duration = slot
SchedOffAir == <<Seg(Sec(10), Sec(6), Sec(6), NULL)>>

\* a start_time string that strptime rejects (ValueError)
NOT_A_TIME == 0 - 1

\* a record without the key slot_duration_total (KeyError)
SegNoSlot(s, dur, xml) == [start_time |-> s, duration |-> dur, filler_xml_path |-> xml]

\* a programme whose filler manifest holds a clip of length 0
SchedZeroClip == <<Seg(Sec(10), Sec(8), Sec(6), ZERO)>>

\* a file whose first record has an unreadable start_time
SchedBadFirst == <<Seg(NOT_A_TIME, Sec(6), Sec(6), ADS), Seg(Sec(16), Sec(6), Sec(6), ADS)>>

\* a file with a record without slot duration between two good records
SchedBadMiddle ==
    <<Seg(Sec(10), Sec(6), Sec(6), ADS), SegNoSlot(Sec(16), Sec(6), ADS),
      Seg(Sec(22), Sec(6), Sec(6), ADS)>>

\* a file whose records are not in start_time order
SchedUnsorted == <<Seg(Sec(18), Sec(11), Sec(9), MISSING), Seg(Sec(10), Sec(8), Sec(6), ADS)>>

\* the schedule file of the channel and day: json is what json.load returns
ScheduleFile(records) == [found |-> TRUE, json |-> records]

\* no file {channel}_{date}_schedule.json
NoScheduleFile == [found |-> FALSE, json |-> <<>>]

\* the content of a file that does not exist
NoFile == ""

\* channel_order of channel_list.json
Channels == <<"bbc", "itv", "ch4">>

Cfg(dry, sched, sim, w, cvlc) ==
    [dry |-> dry, file |-> ScheduleFile(sched), simulate |-> sim, wall0 |-> w,
     cvlc |-> cvlc]

\* simulate = -1: no --simulate-time, the run starts at the wall clock
DryConfigs ==
    {Cfg(TRUE, SchedEndToEnd, Sec(36000), w, TRUE) : w \in {Sec(37799), Sec(37800)}}
    \cup {Cfg(TRUE, SchedPair, s, Sec(28), TRUE) : s \in {Sec(9), Sec(10) - 1, Sec(12)}}
    \cup {Cfg(TRUE, SchedPair, Sec(20), Sec(12), TRUE)}
    \cup {Cfg(TRUE, SchedBadFirst, Sec(9), Sec(40), TRUE),
          Cfg(TRUE, SchedBadMiddle, Sec(9), Sec(40), TRUE),
          Cfg(TRUE, SchedUnsorted, Sec(9), Sec(40), TRUE)}
    \cup {Cfg(TRUE, SchedGap, -1, w, TRUE) : w \in {Sec(8) - 1, Sec(11)}}
    \cup {Cfg(TRUE, SchedNoContent, Sec(10), Sec(30), TRUE),
          Cfg(TRUE, SchedOffAir, Sec(10), Sec(15), TRUE)}

LiveConfigs ==
    {Cfg(FALSE, SchedPair, -1, w, TRUE) : w \in {Sec(8) - 1, Sec(9), Sec(11)}}
    \cup {Cfg(FALSE, SchedGap, -1, Sec(10) - 1, TRUE)}
    \cup {Cfg(FALSE, SchedNoContent, -1, Sec(10), TRUE),
          Cfg(FALSE, SchedOffAir, -1, Sec(10), TRUE),
          Cfg(FALSE, SchedGap, -1, Sec(10), FALSE),
          Cfg(FALSE, SchedGap, -1, Sec(10) + 1, FALSE),
          Cfg(FALSE, SchedZeroClip, -1, Sec(10), TRUE),
          [Cfg(FALSE, <<>>, -1, Sec(10), TRUE) EXCEPT !.file = NoScheduleFile]}

Configs == DryConfigs \cup LiveConfigs

\* one live segment with a wait before it and filler time after it
SchedSolo == <<Seg(Sec(10), Sec(5), Sec(3), ADS)>>

\* the runs under which the channel files are looked at
HostConfigs ==
    {Cfg(FALSE, SchedSolo, -1, Sec(9) - 1, TRUE), Cfg(TRUE, SchedOffAir, Sec(10), Sec(15), TRUE)}

\* channel_list.json, the channel argument and current_channel.txt at the
\* start of the host: no argument, a listed channel, an unlisted one; a state
\* file left by an earlier run; no channel list
HostFiles ==
    {[order |-> Channels, arg |-> "", state |-> NoFile],
     [order |-> Channels, arg |-> "itv", state |-> NoFile],
     [order |-> Channels, arg |-> "", state |-> "itv"],
     [order |-> Channels, arg |-> "sky", state |-> "ch4"],
     [order |-> <<>>, arg |-> "", state |-> NoFile]}

\* -------------------------------------------------------------------- state

VARIABLES
    DRY_RUN, schedule, initial_start_time, cvlc_present,
    schedule_data, channel_order, args_channel, channel_to_run,
    channel_request, channel_state,
    wall, CURRENT_SIMULATED_TIME, VLC_PROCESS, override_file,
    pc, now, start_index, current_program_index,
    time_to_start, wait_start, time_available_seconds,
    stack, ret,
    written, handled, seen, launched, brk,
    orphans, remove_failures, polled, played,
    call, result, signalled_in

vars ==
    <<DRY_RUN, schedule, initial_start_time, cvlc_present,
      schedule_data, channel_order, args_channel, channel_to_run,
      channel_request, channel_state,
      wall, CURRENT_SIMULATED_TIME, VLC_PROCESS, override_file,
      pc, now, start_index, current_program_index,
      time_to_start, wait_start, time_available_seconds,
      stack, ret,
      written, handled, seen, launched, brk,
      orphans, remove_failures, polled, played, call, result,
      signalled_in>>

\* a function of the repository called on its own, and what it returned
callVars == <<call, result>>

\* what the engine was doing when the operator's signal arrived
signalVars == <<signalled_in>>

\* the files of channel_configs and the channel files, as the engine's host
\* finds them: channel_list.json, the schedule file, channel_request.txt
\* (CHANNEL_REQUEST_FILE) and current_channel.txt (CHANNEL_STATE_FILE)
fileVars == <<schedule_data, channel_order, channel_request, channel_state>>

\* what the run is given and, once set, keeps
givenVars == <<DRY_RUN, initial_start_time, cvlc_present, args_channel>>

inputVars == <<givenVars, fileVars, schedule, channel_to_run, callVars, signalVars>>

rcdLocals ==
    <<now, start_index, current_program_index, time_to_start, wait_start,
      time_available_seconds>>

\* the locals of one loop iteration, each assigned again before it is read
slotLocals == <<time_to_start, wait_start, time_available_seconds>>

\* the engine's reading of the clock (tvplayer.py line 550 and 594)
Clock == IF DRY_RUN THEN CURRENT_SIMULATED_TIME ELSE wall

\* no function called on its own, and a call that has not returned
NoCall == [fn |-> "none", arg |-> <<>>]

NoResult == [k |-> "pending", v |-> <<>>]

Call(fn, arg) == [fn |-> fn, arg |-> arg]

Returned(v) == [k |-> "returned", v |-> v]

\* return values
RetFloat(x) == [k |-> "float", v |-> x]

RetNone == [k |-> "None", v |-> 0]

RetBool(b) == [k |-> "bool", v |-> IF b THEN 1 ELSE 0]

\* the return register once the caller has read it
NoRet == [k |-> "read", v |-> 0]

IsTrue(r) == r.k = "bool" /\ r.v = 1

IsInterrupted(r) == r.k = "float" /\ r.v = OVERRIDE_INTERRUPTED

\* a call frame of play_video ("pv"), run_filler_break ("rfb") or
\* check_for_override ("cfo"); arg is max_runtime_seconds / duration_seconds,
\* t0 is playback_start_time / start_time, el is time_elapsed / time_left,
\* off is start_offset, dur is video_data['duration']. why tells the branch of run_channel_day that called
\* run_filler_break ("short", "failed", "remainder") and, for
\* check_for_override, whether it terminated a live player ("killed").
Frame(fn, arg, xml, fil) ==
    [fn |-> fn, pc |-> "entry", arg |-> arg, xml |-> xml, fil |-> fil,
     t0 |-> 0, el |-> 0, clips |-> 0, off |-> 0, why |-> "", dur |-> 0]

NoLaunch ==
    [index |-> 0, first |-> FALSE, clock |-> 0, early |-> 0, start_offset |-> 0,
     max_run_time |-> 0, avail |-> 0]

NoBreak ==
    [W |-> 0, used |-> 0, interrupted |-> FALSE, clips |-> 0, empty |-> FALSE,
     why |-> "", raised |-> FALSE]

\* what the last play_video call that returned did: how it ended ("dry",
\* "launch_failed", "interrupted", "timeout", "exit0", "exit1"), its
\* max_runtime_seconds, is_filler, and the time it took
NoPlay == [how |-> "", max |-> 0, fil |-> FALSE, spent |-> 0, override |-> FALSE]

\* the longest schedule
MaxSegs == 3

\* the state of a run that starts under configuration c
Start(c) ==
    /\ DRY_RUN = c.dry
    /\ schedule_data = c.file
    /\ schedule = <<>>
    /\ cvlc_present = c.cvlc
    /\ wall = c.wall0
    /\ initial_start_time = IF c.dry /\ c.simulate >= 0 THEN c.simulate ELSE c.wall0
    /\ CURRENT_SIMULATED_TIME = c.wall0
    /\ channel_to_run = ""
    /\ VLC_PROCESS = "None"
    /\ override_file = FALSE
    /\ pc = "main"
    /\ now = 0
    /\ start_index = 1
    /\ current_program_index = 1
    /\ time_to_start = 0
    /\ wait_start = 0
    /\ time_available_seconds = 0
    /\ stack = <<>>
    /\ ret = NoRet
    /\ written = 0
    /\ handled = 0
    /\ seen = [i \in 1..MaxSegs |-> 0]
    /\ launched = NoLaunch
    /\ brk = NoBreak
    /\ orphans = 0
    /\ remove_failures = 0
    /\ polled = ""
    /\ played = NoPlay
    /\ signalled_in = ""

\* a run without channel argument, the channel files absent
Init ==
    /\ \E c \in Configs : Start(c)
    /\ channel_order = Channels
    /\ args_channel = ""
    /\ channel_request = NoFile
    /\ channel_state = NoFile
    /\ call = NoCall
    /\ result = NoResult

\* ---------------------------------------------------------- call and return

Top == stack[Len(stack)]

InEngine == stack = <<>>

At(l) == InEngine /\ pc = l

InFrame(fn, l) == stack # <<>> /\ Top.fn = fn /\ Top.pc = l

\* the engine calls f and resumes at label after
EngineCall(f, after) == pc' = after /\ stack' = <<f>>

\* the running callee calls f and resumes at label after, its frame now cur
FrameCall(cur, f, after) ==
    /\ stack' = Append([stack EXCEPT ![Len(stack)] = [cur EXCEPT !.pc = after]], f)
    /\ pc' = pc

\* the running callee moves to label l, its frame now cur
FrameGoto(cur, l) ==
    /\ stack' = [stack EXCEPT ![Len(stack)] = [cur EXCEPT !.pc = l]]
    /\ pc' = pc

Return(v) ==
    /\ stack' = SubSeq(stack, 1, Len(stack) - 1)
    /\ ret' = v
    /\ pc' = pc

\* an exception no handler catches unwinds every frame to __main__
Raise ==
    /\ stack' = <<>>
    /\ pc' = "crashed"

Bump(n) == IF n < 2 THEN n + 1 ELSE 2

\* ------------------------------------------------------------ pure helpers

\* the records on which strptime(program['start_time'], ...) raises ValueError
\* or program['slot_duration_total'] raises KeyError
Malformed(program) ==
    \/ "start_time" \notin DOMAIN program
    \/ "slot_duration_total" \notin DOMAIN program
    \/ program.start_time = NOT_A_TIME

\* the records of LOCATING's scan that have not fully elapsed; the scan
\* skips a record that raises ValueError or KeyError
Unelapsed(from, t) ==
    {i \in from..Len(schedule) :
        /\ ~Malformed(schedule[i])
        /\ schedule[i].start_time + schedule[i].slot_duration_total > t}

SetMin(S) == CHOOSE x \in S : \A y \in S : x <= y

\* a slot that keeps its whole length when it is reached late
TimeAvailableDrift(slot_duration, time_elapsed_in_slot) ==
    IF time_elapsed_in_slot > 0 THEN slot_duration
    ELSE slot_duration - time_elapsed_in_slot

\* time_available_seconds = slot_duration - time_elapsed_in_slot
TimeAvailable(slot_duration, time_elapsed_in_slot) ==
    slot_duration - time_elapsed_in_slot

\* a jump-in offset applied to every late slot
StartOffsetCatchUp(late_seconds, video_full_duration) ==
    IF late_seconds > 0 /\ video_full_duration > 0
    THEN late_seconds % video_full_duration
    ELSE 0

\* a jump-in offset applied to late slots other than the first of a pass
StartOffsetLater(late_seconds, video_full_duration) ==
    IF late_seconds > 0 /\ video_full_duration > 0 /\ current_program_index # start_index
    THEN late_seconds % video_full_duration
    ELSE 0

\* start_offset of the main video, for a slot reached late_seconds late
StartOffset(late_seconds, video_full_duration) == 0

\* max_run_time = min(video_full_duration, time_available_seconds)
MaxRunTime(video_full_duration, avail) == Min(video_full_duration, avail)

\* a simulated wait cut to whole seconds
DryWaitWholeSeconds(tts) == Sec(tts \div Sec(1))

\* the simulated wait: CURRENT_SIMULATED_TIME += timedelta(seconds=time_to_start)
DryWait(tts) == tts

\* an empty filler_list answered by waiting the window out
EmptyManifestTimedWait(duration_seconds) == duration_seconds

\* the time run_filler_break takes over an empty filler_list: it returns at once
EmptyManifestWait(duration_seconds) == 0

\* float(length_elem.text): the duration, or ValueError
ParseFloat(text) ==
    CASE text = "0" -> [ok |-> TRUE, v |-> 0]
      [] text = "1" -> [ok |-> TRUE, v |-> Sec(1)]
      [] text = "12.5" -> [ok |-> TRUE, v |-> Sec(12) + 1]
      [] text = "100" -> [ok |-> TRUE, v |-> Sec(100)]
      [] OTHER -> [ok |-> FALSE, v |-> 0]

\* a loader that takes an unreadable duration for 0
AppendRecordLenient(filler_list, file_elem) ==
    IF file_elem.name \notin {NO_ATTR, ""}
    THEN Append(filler_list,
                [path |-> file_elem.name, duration |-> ParseFloat(file_elem.length).v])
    ELSE filler_list

\* one pass of the loop over root.findall('file'): the record is appended
\* when name and length text are there and float() takes the text
AppendRecord(filler_list, file_elem) ==
    IF /\ file_elem.name \notin {NO_ATTR, ""}
       /\ file_elem.length \notin {NO_ELEM, ""}
    THEN IF ParseFloat(file_elem.length).ok
         THEN Append(filler_list,
                     [path |-> file_elem.name,
                      duration |-> ParseFloat(file_elem.length).v])
         ELSE filler_list
    ELSE filler_list

RECURSIVE LoadRecords(_, _)
LoadRecords(files, filler_list) ==
    IF files = <<>> THEN filler_list
    ELSE LoadRecords(Tail(files), AppendRecord(filler_list, Head(files)))

\* load_filler_videos_from_manifest past os.path.join: [] for a file that
\* is not there or that ET.parse rejects
load_filler_videos_from_manifest(manifest) ==
    IF ~manifest.exists THEN <<>>
    ELSE IF ~manifest.wellformed THEN <<>>
    ELSE LoadRecords(manifest.files, <<>>)

\* video_data['duration'] of each clip of a filler_list
RECURSIVE Durations(_)
Durations(filler_list) ==
    IF filler_list = <<>> THEN <<>>
    ELSE <<Head(filler_list).duration>> \o Durations(Tail(filler_list))

\* the durations of the clips loaded from a manifest path; "raise" for a
\* path of None
LoadFiller(path) ==
    IF path = NULL THEN "raise"
    ELSE Durations(load_filler_videos_from_manifest(ManifestAt(path)))

\* load_schedule_for_channel: the list of the file as json.load returns it,
\* [] when there is no file or the list is empty
LoadScheduleForChannel(file) ==
    IF ~file.found THEN <<>> ELSE file.json

\* ------------------------------------------------------------- main_loop

\* the position of a channel in channel_order, 0 if it is not there
ChannelIndex(channel) ==
    IF \E k \in 1..Len(channel_order) : channel_order[k] = channel
    THEN CHOOSE k \in 1..Len(channel_order) : channel_order[k] = channel
    ELSE 0

\* main_loop up to the call of run_channel_day: without channels it leaves
\* through sys.exit(1); the channel is the argument if channel_order holds
\* it, the first channel otherwise
MainLoop ==
    /\ At("main")
    /\ IF channel_order = <<>>
       THEN pc' = "no_channels" /\ UNCHANGED channel_to_run
       ELSE /\ channel_to_run' = IF args_channel = "" \/ ChannelIndex(args_channel) = 0
                                 THEN channel_order[1]
                                 ELSE args_channel
            /\ pc' = "load"
    /\ UNCHANGED <<givenVars, fileVars, schedule, callVars, signalVars, wall,
                   CURRENT_SIMULATED_TIME,
                   VLC_PROCESS, override_file, rcdLocals, stack, ret, written, handled,
                   seen, launched, brk, orphans, remove_failures, polled, played>>

\* ------------------------------------------------------- run_channel_day

\* schedule = load_schedule_for_channel(...); start_index = 0; now = initial
LoadSchedule ==
    /\ At("load")
    /\ schedule' = LoadScheduleForChannel(schedule_data)
    /\ IF schedule' = <<>>
       THEN pc' = "returned" /\ UNCHANGED <<now, start_index>>
       ELSE pc' = "locate" /\ now' = initial_start_time /\ start_index' = 1
    /\ UNCHANGED <<givenVars, fileVars, channel_to_run, callVars, signalVars, wall,
                   CURRENT_SIMULATED_TIME,
                   VLC_PROCESS,
                   override_file, current_program_index, slotLocals, stack, ret,
                   written, handled, seen, launched, brk,
                   orphans, remove_failures, polled, played>>

\* the for loop over range(start_index, len(schedule)) and what follows it
Locate ==
    /\ At("locate")
    /\ IF Unelapsed(start_index, now) = {}
       THEN /\ pc' = "returned"
            /\ UNCHANGED <<start_index, current_program_index, CURRENT_SIMULATED_TIME>>
       ELSE /\ start_index' = SetMin(Unelapsed(start_index, now))
            /\ current_program_index' = start_index'
            /\ CURRENT_SIMULATED_TIME' = IF DRY_RUN THEN now ELSE CURRENT_SIMULATED_TIME
            /\ pc' = "slot_top"
    /\ polled' = ""
    /\ UNCHANGED <<inputVars, wall, VLC_PROCESS, override_file, now, slotLocals, stack,
                   ret, written, handled, seen, launched, brk,
                   orphans, remove_failures, played>>

\* while current_program_index < len(schedule): check_for_override(300)
SlotTop ==
    /\ At("slot_top")
    /\ IF current_program_index > Len(schedule)
       THEN pc' = "renow" /\ stack' = stack
       ELSE EngineCall(Frame("cfo", SLOT_POLL_DUMMY, "", FALSE), "slot_eval")
    /\ UNCHANGED <<inputVars, wall, CURRENT_SIMULATED_TIME, VLC_PROCESS, override_file,
                   rcdLocals, ret, written, handled, seen, launched, brk,
                   orphans, remove_failures, polled, played>>

\* the slot-start poll's result, then section A (pre-program wait)
SlotEval ==
    /\ At("slot_eval")
    /\ IF IsTrue(ret)
       THEN /\ pc' = "renow"
            /\ UNCHANGED <<time_to_start, wait_start, CURRENT_SIMULATED_TIME, seen>>
       ELSE IF Malformed(schedule[current_program_index])
       THEN /\ pc' = "crashed"
            /\ UNCHANGED <<time_to_start, wait_start, CURRENT_SIMULATED_TIME, seen>>
       ELSE LET program == schedule[current_program_index]
                tts == program.start_time - Clock
            IN  /\ time_to_start' = tts
                /\ seen' = [seen EXCEPT ![current_program_index] = Bump(@)]
                /\ IF tts > SLOT_TOLERANCE
                   THEN IF DRY_RUN
                        THEN /\ CURRENT_SIMULATED_TIME' = CURRENT_SIMULATED_TIME + DryWait(tts)
                             /\ pc' = "exec"
                             /\ UNCHANGED wait_start
                        ELSE /\ wait_start' = wall
                             /\ pc' = "wait_loop"
                             /\ UNCHANGED CURRENT_SIMULATED_TIME
                   ELSE /\ pc' = "exec"
                        /\ UNCHANGED <<wait_start, CURRENT_SIMULATED_TIME>>
    /\ ret' = NoRet
    /\ polled' = IF polled = "acted" THEN polled ELSE ""
    /\ UNCHANGED <<inputVars, wall, VLC_PROCESS, override_file, now, start_index,
                   current_program_index, time_available_seconds, stack, written,
                   handled, launched, brk,
                   orphans, remove_failures, played>>

\* a wait that sleeps the rest of time_to_start in one piece
WaitSleepWhole(tts, waited) == tts - waited

\* the sleep between two polls of the wait: time.sleep(OVERRIDE_CHECK_INTERVAL)
WaitSleep(tts, waited) == OVERRIDE_CHECK_INTERVAL

\* while (time.time() - wait_start) < time_to_start: poll; after it, poll once more
WaitLoop ==
    /\ At("wait_loop")
    /\ IF wall - wait_start < time_to_start
       THEN EngineCall(Frame("cfo", time_to_start - (wall - wait_start), "", FALSE),
                       "wait_poll")
       ELSE EngineCall(Frame("cfo", 0, "", FALSE), "wait_last")
    /\ UNCHANGED <<inputVars, wall, CURRENT_SIMULATED_TIME, VLC_PROCESS, override_file,
                   rcdLocals, ret, written, handled, seen, launched, brk,
                   orphans, remove_failures, polled, played>>

\* override_occurred = True; break  /  time.sleep(OVERRIDE_CHECK_INTERVAL)
WaitPoll ==
    /\ At("wait_poll")
    /\ IF IsTrue(ret)
       THEN pc' = "renow" /\ wall' = wall
       ELSE pc' = "wait_loop" /\ wall' = wall + WaitSleep(time_to_start, wall - wait_start)
    /\ ret' = NoRet
    /\ polled' = IF polled = "acted" THEN polled ELSE ""
    /\ UNCHANGED <<inputVars, CURRENT_SIMULATED_TIME, VLC_PROCESS, override_file,
                   rcdLocals, stack, written, handled, seen, launched, brk,
                   orphans, remove_failures, played>>

\* if override_occurred or check_for_override(0): break
WaitLast ==
    /\ At("wait_last")
    /\ pc' = IF IsTrue(ret) THEN "renow" ELSE "exec"
    /\ ret' = NoRet
    /\ polled' = IF polled = "acted" THEN polled ELSE ""
    /\ UNCHANGED <<inputVars, wall, CURRENT_SIMULATED_TIME, VLC_PROCESS, override_file,
                   rcdLocals, stack, written, handled, seen, launched, brk,
                   orphans, remove_failures, played>>

\* sections B and C: the slot window, then the main show or the filler
Exec ==
    /\ At("exec")
    /\ LET program == schedule[current_program_index]
           time_elapsed_in_slot == Clock - program.start_time
           avail == TimeAvailable(program.slot_duration_total, time_elapsed_in_slot)
           start_offset == StartOffset(time_elapsed_in_slot, program.duration)
           max_run_time == MaxRunTime(program.duration, avail)
       IN  /\ time_available_seconds' = avail
           /\ IF avail <= SLOT_TOLERANCE
              THEN /\ current_program_index' = current_program_index + 1
                   /\ pc' = "slot_top"
                   /\ UNCHANGED <<stack, launched>>
              ELSE IF max_run_time < MIN_PLAYBACK_TIME
              THEN /\ EngineCall([Frame("rfb", avail, program.filler_xml_path, FALSE)
                                      EXCEPT !.why = "short"], "after_filler")
                   /\ UNCHANGED <<current_program_index, launched>>
              ELSE /\ EngineCall([Frame("pv", max_run_time, "", FALSE)
                                      EXCEPT !.off = start_offset,
                                             !.dur = program.duration], "after_main")
                   /\ launched' = [index |-> current_program_index,
                                   first |-> current_program_index = start_index,
                                   clock |-> Clock,
                                   early |-> time_to_start,
                                   start_offset |-> start_offset,
                                   max_run_time |-> max_run_time,
                                   avail |-> avail]
                   /\ UNCHANGED current_program_index
    /\ UNCHANGED <<inputVars, wall, CURRENT_SIMULATED_TIME, VLC_PROCESS, override_file,
                   now, start_index, time_to_start, wait_start, ret, written, handled,
                   seen, brk,
                   orphans, remove_failures, polled, played>>

\* a remainder that forgets the time the main show took
TimeRemainingInSlotWhole(avail, actual_run_time) == avail

\* time_remaining_in_slot = time_available_seconds - actual_run_time
TimeRemainingInSlot(avail, actual_run_time) == avail - actual_run_time

\* section D: the result of the main show's play_video
AfterMain ==
    /\ At("after_main")
    /\ LET program == schedule[current_program_index]
           time_remaining_in_slot == TimeRemainingInSlot(time_available_seconds, ret.v)
       IN  IF IsInterrupted(ret)
           THEN pc' = "renow" /\ stack' = stack
           ELSE IF ret.k = "None"
           THEN EngineCall([Frame("rfb", time_available_seconds,
                                  program.filler_xml_path, FALSE)
                                EXCEPT !.why = "failed"], "after_filler")
           ELSE IF time_remaining_in_slot > SLOT_TOLERANCE
           THEN EngineCall([Frame("rfb", time_remaining_in_slot,
                                  program.filler_xml_path, FALSE)
                                EXCEPT !.why = "remainder"], "after_filler")
           ELSE pc' = "advance" /\ stack' = stack
    /\ ret' = NoRet
    /\ launched' = NoLaunch
    /\ played' = NoPlay
    /\ UNCHANGED <<inputVars, wall, CURRENT_SIMULATED_TIME, VLC_PROCESS, override_file,
                   rcdLocals, written, handled, seen, brk,
                   orphans, remove_failures, polled>>

\* if run_filler_break(...): break
AfterFiller ==
    /\ At("after_filler")
    /\ pc' = IF IsTrue(ret) THEN "renow" ELSE "advance"
    /\ ret' = NoRet
    /\ brk' = NoBreak
    /\ UNCHANGED <<inputVars, wall, CURRENT_SIMULATED_TIME, VLC_PROCESS, override_file,
                   rcdLocals, stack, written, handled, seen, launched,
                   orphans, remove_failures, polled, played>>

\* section E: current_program_index += 1 (the iteration's locals end here)
Advance ==
    /\ At("advance")
    /\ current_program_index' = current_program_index + 1
    /\ pc' = "slot_top"
    /\ time_to_start' = 0
    /\ wait_start' = 0
    /\ time_available_seconds' = 0
    /\ UNCHANGED <<inputVars, wall, CURRENT_SIMULATED_TIME, VLC_PROCESS, override_file,
                   now, start_index, stack, ret, written, handled, seen, launched, brk,
                   orphans, remove_failures, polled, played>>

\* now = datetime.datetime.now(): the wall clock, read after the inner loop
\* whatever the mode; the real time gone by since the last reading is d
ReNow ==
    /\ At("renow")
    /\ \E d \in {0, 1} :
        /\ wall' = wall + d
        /\ now' = wall'
    /\ pc' = "locate"
    /\ time_to_start' = 0
    /\ wait_start' = 0
    /\ time_available_seconds' = 0
    /\ UNCHANGED <<inputVars, CURRENT_SIMULATED_TIME, VLC_PROCESS, override_file,
                   start_index, current_program_index, stack, ret, written, handled,
                   seen, launched, brk,
                   orphans, remove_failures, polled, played>>

\* ------------------------------------------------------------- play_video

\* external_timeout = max_runtime_seconds + VLC_TIMEOUT_BUFFER
ExternalTimeout(max_runtime_seconds) == max_runtime_seconds + VLC_TIMEOUT_BUFFER

\* sleep_duration = min(OVERRIDE_CHECK_INTERVAL, max_runtime_seconds)
SleepDuration(max_runtime_seconds) == Min(OVERRIDE_CHECK_INTERVAL, max_runtime_seconds)

\* the play_video call made by check_for_override (the frame below is cfo)
IsOverridePlay == Len(stack) >= 2 /\ stack[Len(stack) - 1].fn = "cfo"

\* the moments a scheduled player may exit by itself: within its first
\* MaxEarlyExit seconds (a bad file, a crash), at the first poll after its
\* content's end, or at the last poll before the timeout
ExitMoment(max_runtime_seconds, time_elapsed) ==
    \/ time_elapsed <= Sec(MaxEarlyExit)
    \/ /\ time_elapsed >= max_runtime_seconds
       /\ time_elapsed < max_runtime_seconds + OVERRIDE_CHECK_INTERVAL
    \/ time_elapsed = ExternalTimeout(max_runtime_seconds)

\* what the player process may have done by the end of a sleep: still running,
\* exited with code 0, exited with a non-zero code. A viewer-requested video
\* has exited after MaxOverridePlay seconds.
PlayerAfterSleep(max_runtime_seconds, time_elapsed) ==
    IF IsOverridePlay
    THEN IF time_elapsed >= Sec(MaxOverridePlay)
         THEN {"exit0", "exit1"}
         ELSE {"alive", "exit0", "exit1"}
    ELSE IF ExitMoment(max_runtime_seconds, time_elapsed)
         THEN {"alive", "exit0", "exit1"}
         ELSE {"alive"}

\* what a returning play_video call leaves behind
PlayRecord(f, how, spent) ==
    [how |-> how, max |-> f.arg, fil |-> f.fil, spent |-> spent,
     override |-> IsOverridePlay]

\* the dry-run branch, or steps 2-4 up to Popen, which stores the new process
\* in VLC_PROCESS whatever the handle held before
PlayVideoEntry ==
    /\ InFrame("pv", "entry")
    /\ IF DRY_RUN
       THEN /\ CURRENT_SIMULATED_TIME' = CURRENT_SIMULATED_TIME + Top.arg
            /\ Return(RetFloat(Top.arg))
            /\ played' = PlayRecord(Top, "dry", Top.arg)
            /\ UNCHANGED <<VLC_PROCESS, orphans>>
       ELSE IF ~cvlc_present
       THEN /\ VLC_PROCESS' = "None"
            /\ Return(RetNone)
            /\ played' = PlayRecord(Top, "launch_failed", 0)
            /\ UNCHANGED <<CURRENT_SIMULATED_TIME, orphans>>
       ELSE /\ VLC_PROCESS' = "alive"
            /\ orphans' = IF VLC_PROCESS = "alive" THEN orphans + 1 ELSE orphans
            /\ FrameGoto([Top EXCEPT !.t0 = wall, !.el = 0], "loop")
            /\ UNCHANGED <<CURRENT_SIMULATED_TIME, ret, played>>
    /\ UNCHANGED <<inputVars, wall, override_file, rcdLocals, written, handled, seen,
                   launched, brk, remove_failures, polled>>

\* while VLC_PROCESS.poll() is None and time_elapsed < external_timeout
PlayVideoLoop ==
    /\ InFrame("pv", "loop")
    /\ IF VLC_PROCESS = "alive" /\ Top.el < ExternalTimeout(Top.arg)
       THEN FrameCall(Top, Frame("cfo", ExternalTimeout(Top.arg) - Top.el, "", FALSE),
                      "poll")
       ELSE FrameGoto(Top, "outcome")
    /\ UNCHANGED <<inputVars, wall, CURRENT_SIMULATED_TIME, VLC_PROCESS, override_file,
                   rcdLocals, ret, written, handled, seen, launched, brk,
                   orphans, remove_failures, polled, played>>

\* return OVERRIDE_INTERRUPTED, or sleep time_to_sleep, or break
PlayVideoPoll ==
    /\ InFrame("pv", "poll")
    /\ LET time_to_sleep ==
               Min(SleepDuration(Top.arg), ExternalTimeout(Top.arg) - Top.el)
       IN  IF IsTrue(ret)
           THEN /\ Return(RetFloat(OVERRIDE_INTERRUPTED))
                /\ played' = PlayRecord(Top, "interrupted", wall - Top.t0)
                /\ UNCHANGED <<wall, VLC_PROCESS>>
           ELSE IF time_to_sleep > 0
           THEN /\ wall' = wall + time_to_sleep
                /\ VLC_PROCESS' \in PlayerAfterSleep(Top.arg, Top.el + time_to_sleep)
                /\ FrameGoto([Top EXCEPT !.el = @ + time_to_sleep], "loop")
                /\ ret' = NoRet
                /\ UNCHANGED played
           ELSE /\ FrameGoto(Top, "outcome")
                /\ ret' = NoRet
                /\ UNCHANGED <<wall, VLC_PROCESS, played>>
    /\ polled' = IF polled = "acted" THEN polled ELSE ""
    /\ UNCHANGED <<inputVars, CURRENT_SIMULATED_TIME, override_file, rcdLocals, written,
                   handled, seen, launched, brk, orphans, remove_failures>>

\* a timeout that clears the handle and leaves the player running
TimeoutAbandons == FALSE

\* the timeout branch: VLC_PROCESS.terminate(); VLC_PROCESS.wait()
TimeoutTerminates == TRUE

\* a timeout that reports the measured time for a filler clip
PlayVideoResultMeasured(process, max_runtime_seconds, is_filler, actual_run_time) ==
    IF process = "exit1" THEN RetNone
    ELSE IF is_filler THEN RetFloat(actual_run_time)
    ELSE RetFloat(max_runtime_seconds)

\* a clean exit that reports the ceiling for filler clips too
PlayVideoResultAssumed(process, max_runtime_seconds, is_filler, actual_run_time) ==
    IF process = "exit1" THEN RetNone
    ELSE RetFloat(max_runtime_seconds)

\* the value play_video returns once the loop is over
PlayVideoResult(process, max_runtime_seconds, is_filler, actual_run_time) ==
    IF process = "alive" THEN RetFloat(max_runtime_seconds)
    ELSE IF process = "exit1" THEN RetNone
    ELSE IF is_filler THEN RetFloat(actual_run_time)
    ELSE RetFloat(max_runtime_seconds)

\* process termination outcome: timeout (terminate, wait), failure, success
PlayVideoOutcome ==
    /\ InFrame("pv", "outcome")
    /\ VLC_PROCESS' = "None"
    /\ orphans' = IF VLC_PROCESS = "alive" /\ ~TimeoutTerminates
                  THEN orphans + 1 ELSE orphans
    /\ Return(PlayVideoResult(VLC_PROCESS, Top.arg, Top.fil, wall - Top.t0))
    /\ played' = PlayRecord(Top, IF VLC_PROCESS = "alive" THEN "timeout" ELSE VLC_PROCESS,
                            wall - Top.t0)
    /\ UNCHANGED <<inputVars, wall, CURRENT_SIMULATED_TIME, override_file, rcdLocals,
                   written, handled, seen, launched, brk, remove_failures, polled>>

\* ------------------------------------------------------ check_for_override

\* the steps in an order that deletes the file only after the video has played
NextOverrideStepDeleteLast(step) ==
    CASE step = "entry" -> "terminate"
      [] step = "terminate" -> "play"
      [] step = "play" -> "remove"
      [] OTHER -> "return"

\* the order of the numbered steps of check_for_override once the file is
\* found: 1. read and os.remove, 2. terminate the current player, 3. play the
\* requested video, 4. return True
NextOverrideStep(step) ==
    CASE step = "entry" -> "remove"
      [] step = "remove" -> "terminate"
      [] step = "terminate" -> "play"
      [] OTHER -> "return"

\* a file that os.remove never takes away
RemoveOverrideFileNever(ok) == TRUE

\* whether the override file is still there after os.remove: gone unless the
\* call raised
RemoveOverrideFile(ok) == ~ok

\* the except clause around the read and the delete: log, return False
AfterFailedRemove == "return_false"

\* a check_for_override that leaves the current player running
OverrideTerminatesNever(process) == FALSE

\* if VLC_PROCESS and VLC_PROCESS.poll() is None: terminate(), wait()
OverrideTerminates(process) == process = "alive"

\* the outcomes os.remove may have
RemoveOutcomes == IF remove_failures < MaxRemoveFailures THEN {TRUE, FALSE} ELSE {TRUE}

\* move on to step n of check_for_override, the last of which is return True
OverrideGoto(cur, n) ==
    IF n = "return"
    THEN Return(RetBool(TRUE)) /\ polled' = "acted"
    ELSE FrameGoto(cur, n) /\ UNCHANGED <<ret, polled>>

\* if os.path.exists(OVERRIDE_FILE): ...; else return False
CheckForOverride ==
    /\ InFrame("cfo", "entry")
    /\ IF ~override_file
       THEN Return(RetBool(FALSE)) /\ polled' = "absent"
       ELSE OverrideGoto(Top, NextOverrideStep("entry"))
    /\ UNCHANGED <<inputVars, wall, CURRENT_SIMULATED_TIME, VLC_PROCESS, override_file,
                   rcdLocals, written, handled, seen, launched, brk,
                   orphans, remove_failures, played>>

\* 1. read the path and os.remove the file; on an exception return False
OverrideRemove ==
    /\ InFrame("cfo", "remove")
    /\ \E ok \in RemoveOutcomes :
        /\ override_file' = RemoveOverrideFile(ok)
        /\ remove_failures' = IF ok THEN 0 ELSE remove_failures + 1
        /\ IF ok \/ AfterFailedRemove = "go_on"
           THEN OverrideGoto(Top, NextOverrideStep("remove"))
           ELSE Return(RetBool(FALSE)) /\ polled' = "failed"
    /\ UNCHANGED <<inputVars, wall, CURRENT_SIMULATED_TIME, VLC_PROCESS, rcdLocals,
                   written, handled, seen, launched, brk, orphans, played>>

\* 2. terminate and reap the player that is running, clear the handle
OverrideTerminate ==
    /\ InFrame("cfo", "terminate")
    /\ IF OverrideTerminates(VLC_PROCESS)
       THEN /\ VLC_PROCESS' = "None"
            /\ OverrideGoto([Top EXCEPT !.why = "killed"], NextOverrideStep("terminate"))
       ELSE /\ VLC_PROCESS' = VLC_PROCESS
            /\ OverrideGoto(Top, NextOverrideStep("terminate"))
    /\ UNCHANGED <<inputVars, wall, CURRENT_SIMULATED_TIME, override_file, rcdLocals,
                   written, handled, seen, launched, brk,
                   orphans, remove_failures, played>>

\* 3. play_video(override_data, ..., max_runtime_seconds=7200, start_offset=0.0,
\*    is_filler=False)
OverridePlay ==
    /\ InFrame("cfo", "play")
    /\ handled' = handled + 1
    /\ FrameCall(Top, [Frame("pv", OVERRIDE_MAX_RUNTIME, "", FALSE)
                          EXCEPT !.off = 0, !.dur = OVERRIDE_DURATION],
                 "after_play")
    /\ UNCHANGED <<inputVars, wall, CURRENT_SIMULATED_TIME, VLC_PROCESS, override_file,
                   rcdLocals, ret, written, seen, launched, brk,
                   orphans, remove_failures, polled, played>>

\* 4. the requested video's play_video has returned (its value is not looked
\*    at): return True
OverrideDone ==
    /\ InFrame("cfo", "after_play")
    /\ OverrideGoto(Top, NextOverrideStep("play"))
    /\ played' = NoPlay
    /\ UNCHANGED <<inputVars, wall, CURRENT_SIMULATED_TIME, VLC_PROCESS, override_file,
                   rcdLocals, written, handled, seen, launched, brk,
                   orphans, remove_failures>>

\* -------------------------------------------------------- run_filler_break

\* what a break that returns leaves behind
BreakRecord(f, used, interrupted, empty) ==
    [W |-> f.arg, used |-> used, interrupted |-> interrupted, clips |-> f.clips,
     empty |-> empty, why |-> f.why, raised |-> FALSE]

\* the guards, the manifest load and the dry-run branch
FillerEntry ==
    /\ InFrame("rfb", "entry")
    /\ LET filler_list == LoadFiller(Top.xml)
       IN  IF Top.arg <= FILLER_MIN_WINDOW
           THEN /\ Return(RetBool(FALSE))
                /\ brk' = BreakRecord(Top, 0, FALSE, FALSE)
                /\ UNCHANGED <<wall, CURRENT_SIMULATED_TIME>>
           ELSE IF filler_list = "raise"
           THEN /\ Raise
                /\ brk' = [BreakRecord(Top, 0, FALSE, FALSE) EXCEPT !.raised = TRUE]
                /\ UNCHANGED <<wall, CURRENT_SIMULATED_TIME, ret>>
           ELSE IF filler_list = <<>>
           THEN /\ Return(RetBool(FALSE))
                /\ brk' = BreakRecord(Top, EmptyManifestWait(Top.arg), FALSE, TRUE)
                /\ IF DRY_RUN
                   THEN /\ CURRENT_SIMULATED_TIME' =
                              CURRENT_SIMULATED_TIME + EmptyManifestWait(Top.arg)
                        /\ wall' = wall
                   ELSE /\ wall' = wall + EmptyManifestWait(Top.arg)
                        /\ UNCHANGED CURRENT_SIMULATED_TIME
           ELSE IF DRY_RUN
           THEN /\ CURRENT_SIMULATED_TIME' = CURRENT_SIMULATED_TIME + Top.arg
                /\ Return(RetBool(FALSE))
                /\ brk' = BreakRecord(Top, Top.arg, FALSE, FALSE)
                /\ wall' = wall
           ELSE /\ FrameGoto([Top EXCEPT !.t0 = wall], "loop")
                /\ UNCHANGED <<wall, CURRENT_SIMULATED_TIME, ret, brk>>
    /\ UNCHANGED <<inputVars, VLC_PROCESS, override_file, rcdLocals, written,
                   handled, seen, launched,
                   orphans, remove_failures, polled, played>>

\* while (time.time() - start_time) < duration_seconds: time_left, poll
FillerLoop ==
    /\ InFrame("rfb", "loop")
    /\ LET time_left == Top.arg - (wall - Top.t0)
       IN  IF wall - Top.t0 < Top.arg
           THEN /\ FrameCall([Top EXCEPT !.el = time_left],
                             Frame("cfo", time_left, "", FALSE), "poll")
                /\ UNCHANGED <<ret, brk>>
           ELSE /\ Return(RetBool(FALSE))
                /\ brk' = BreakRecord(Top, wall - Top.t0, FALSE, FALSE)
    /\ UNCHANGED <<inputVars, wall, CURRENT_SIMULATED_TIME, VLC_PROCESS, override_file,
                   rcdLocals, written, handled, seen, launched,
                   orphans, remove_failures, polled, played>>

\* a clip allowed its whole length whatever is left of the window
MaxClipRunTimeWholeClip(filler_duration, time_left) == filler_duration

\* max_clip_run_time = min(filler_duration, time_left)
MaxClipRunTime(filler_duration, time_left) == Min(filler_duration, time_left)

\* return True, or break on time_left < 1.0, or random.choice and play_video
FillerPoll ==
    /\ InFrame("rfb", "poll")
    /\ IF IsTrue(ret)
       THEN /\ Return(RetBool(TRUE))
            /\ brk' = BreakRecord(Top, wall - Top.t0, TRUE, FALSE)
       ELSE IF Top.el < FILLER_MIN_WINDOW
       THEN /\ Return(RetBool(FALSE))
            /\ brk' = BreakRecord(Top, wall - Top.t0, FALSE, FALSE)
       ELSE /\ \E k \in 1..Len(LoadFiller(Top.xml)) :
                 FrameCall([Top EXCEPT !.clips = Bump(@)],
                           [Frame("pv", MaxClipRunTime(LoadFiller(Top.xml)[k], Top.el),
                                  "", TRUE)
                               EXCEPT !.dur = LoadFiller(Top.xml)[k]],
                           "played")
            /\ ret' = NoRet
            /\ UNCHANGED brk
    /\ polled' = IF polled = "acted" THEN polled ELSE ""
    /\ UNCHANGED <<inputVars, wall, CURRENT_SIMULATED_TIME, VLC_PROCESS, override_file,
                   rcdLocals, written, handled, seen, launched,
                   orphans, remove_failures, played>>

\* a break that selects the next clip right after a failed one
AfterClipNoPoll(played_time) == IF played_time.k = "None" THEN "poll" ELSE "loop"

\* where run_filler_break goes on after a clip that was not interrupted: the
\* head of its while loop
AfterClip(played_time) == "loop"

\* a failed clip that costs nothing
FailedClipNoSleep(played_time) == 0

\* if played_time is None: time.sleep(5)
FailedClipSleep(played_time) == IF played_time.k = "None" THEN FILLER_FAIL_SLEEP ELSE 0

\* the clip's result: return True, or time.sleep(5) after a failure, then loop
FillerPlayed ==
    /\ InFrame("rfb", "played")
    /\ IF IsInterrupted(ret)
       THEN /\ Return(RetBool(TRUE))
            /\ brk' = BreakRecord(Top, wall - Top.t0, TRUE, FALSE)
            /\ wall' = wall
       ELSE /\ wall' = wall + FailedClipSleep(ret)
            /\ FrameGoto(Top, AfterClip(ret))
            /\ ret' = NoRet
            /\ UNCHANGED brk
    /\ played' = NoPlay
    /\ UNCHANGED <<inputVars, CURRENT_SIMULATED_TIME, VLC_PROCESS, override_file,
                   rcdLocals, written, handled, seen, launched,
                   orphans, remove_failures, polled>>

\* ------------------------------------------------------------- environment

\* a requested video is playing
DuringOverride ==
    \E k \in 1..Len(stack) : stack[k].fn = "cfo" /\ stack[k].pc = "after_play"

\* a peer process creates override_video.txt (OVERRIDE_FILE). The engine
\* looks at the file only in check_for_override (os.path.exists), so a write
\* made at any moment since the previous poll is placed at the poll that
\* finds it.
WriteOverride ==
    /\ InFrame("cfo", "entry")
    /\ ~override_file
    /\ written < MaxOverrides + (IF DuringOverride THEN MaxNestedOverrides ELSE 0)
    /\ override_file' = TRUE
    /\ written' = written + 1
    /\ UNCHANGED <<inputVars, wall, CURRENT_SIMULATED_TIME, VLC_PROCESS, pc, rcdLocals,
                   stack, ret, handled, seen, launched, brk,
                   orphans, remove_failures, polled, played>>

\* the play_video calls under way, innermost last
PlayFrames == {k \in 1..Len(stack) : stack[k].fn = "pv"}

\* what the engine is doing: playing a requested video, a filler clip or a
\* main show (the innermost play_video call), waiting for a slot, or none
EngineState ==
    IF PlayFrames # {}
    THEN LET k == CHOOSE m \in PlayFrames : \A n \in PlayFrames : n <= m
         IN  IF k > 1 /\ stack[k - 1].fn = "cfo" THEN "override"
             ELSE IF stack[k].fil THEN "filler"
             ELSE "main"
    ELSE IF pc \in {"wait_loop", "wait_poll", "wait_last"} THEN "waiting"
    ELSE "other"

\* a handler that leaves the player running
GracefulExitNoTerminate ==
    /\ pc \notin {"returned", "crashed", "exited", "no_channels"}
    /\ pc' = "exited"
    /\ signalled_in' = EngineState
    /\ UNCHANGED <<givenVars, fileVars, schedule, channel_to_run, callVars, wall,
                   CURRENT_SIMULATED_TIME, VLC_PROCESS, override_file, rcdLocals,
                   stack, ret, written, handled, seen, launched, brk, orphans,
                   remove_failures, polled, played>>

\* SIGINT or SIGTERM from the operator, at any moment of the run:
\* graceful_exit terminates the player that is running (it does not wait for
\* it and does not clear the handle) and leaves through sys.exit(0); the
\* engine's own memory is gone with the process
GracefulExit ==
    /\ pc \notin {"returned", "crashed", "exited", "no_channels"}
    /\ VLC_PROCESS' = IF VLC_PROCESS = "alive" THEN "terminated" ELSE VLC_PROCESS
    /\ pc' = "exited"
    /\ stack' = <<>>
    /\ ret' = NoRet
    /\ now' = 0
    /\ start_index' = 1
    /\ current_program_index' = 1
    /\ time_to_start' = 0
    /\ wait_start' = 0
    /\ time_available_seconds' = 0
    /\ launched' = NoLaunch
    /\ brk' = NoBreak
    /\ polled' = ""
    /\ played' = NoPlay
    /\ signalled_in' = EngineState
    /\ UNCHANGED <<givenVars, fileVars, schedule, channel_to_run, callVars, wall,
                   CURRENT_SIMULATED_TIME, override_file, written,
                   handled, seen, orphans, remove_failures>>

\* main() of channel_change.py from the channel list on: the channel
\* selected, the exit status, and whether channel_request.txt is written
channel_change_main(direction) ==
    IF channel_order = <<>>
    THEN [new_channel |-> "", status |-> 1, wrote |-> FALSE, error |-> ""]
    ELSE LET current_channel == channel_state
             current_index == IF ChannelIndex(current_channel) = 0 THEN 0
                              ELSE ChannelIndex(current_channel) - 1
             num_channels == Len(channel_order)
             new_index == IF direction = "up"
                          THEN (current_index + 1) % num_channels
                          ELSE (current_index - 1 + num_channels) % num_channels
             new_channel == channel_order[new_index + 1]
         IN  [new_channel |-> new_channel, status |-> 0,
              wrote |-> new_channel # current_channel, error |-> ""]

\* the script as an interpreter runs it: the annotation Optional[str] of
\* get_current_channel names something the module never imports, so an
\* interpreter that evaluates annotations when the def statement runs
\* raises NameError before main() is reached; one that defers them runs main()
channel_change(direction, annotations) ==
    IF annotations = "eager"
    THEN [new_channel |-> "", status |-> 1, wrote |-> FALSE, error |-> "NameError"]
    ELSE channel_change_main(direction)

\* channel_change.py up | down, run by the viewer while the player is up
ChannelChange ==
    /\ pc \notin {"returned", "crashed", "exited", "no_channels"}
    /\ \E direction \in {"up", "down"}, annotations \in {"eager", "deferred"} :
        LET outcome == channel_change(direction, annotations)
        IN  /\ call' = Call("channel_change", direction)
            /\ result' = Returned(outcome)
            /\ channel_request' = IF outcome.wrote THEN outcome.new_channel
                                  ELSE channel_request
    /\ UNCHANGED <<givenVars, schedule_data, channel_order, channel_state, schedule,
                   channel_to_run, signalVars, wall, CURRENT_SIMULATED_TIME, VLC_PROCESS,
                   override_file, pc, rcdLocals, stack, ret, written, handled, seen,
                   launched, brk, orphans, remove_failures, polled, played>>

\* how the process ended: 0 when main_loop returns or graceful_exit runs, 1
\* from sys.exit(1) in main_loop and from the handler of __main__; -1 while
\* it runs
ExitStatus ==
    CASE pc \in {"returned", "exited"} -> 0
      [] pc \in {"crashed", "no_channels"} -> 1
      [] OTHER -> 0 - 1

Next ==
    \/ MainLoop
    \/ LoadSchedule
    \/ Locate
    \/ SlotTop
    \/ SlotEval
    \/ WaitLoop
    \/ WaitPoll
    \/ WaitLast
    \/ Exec
    \/ AfterMain
    \/ AfterFiller
    \/ Advance
    \/ ReNow
    \/ PlayVideoEntry
    \/ PlayVideoLoop
    \/ PlayVideoPoll
    \/ PlayVideoOutcome
    \/ CheckForOverride
    \/ OverrideRemove
    \/ OverrideTerminate
    \/ OverridePlay
    \/ OverrideDone
    \/ FillerEntry
    \/ FillerLoop
    \/ FillerPoll
    \/ FillerPlayed
    \/ WriteOverride
    \/ GracefulExit

Spec == Init /\ [][Next]_vars

\* the host with its channel files and the viewer's channel command
InitHost ==
    /\ \E c \in HostConfigs : Start(c)
    /\ \E h \in HostFiles :
        /\ channel_order = h.order
        /\ args_channel = h.arg
        /\ channel_state = h.state
    /\ channel_request = NoFile
    /\ call = NoCall
    /\ result = NoResult

NextHost == Next \/ ChannelChange

SpecHost == InitHost /\ [][NextHost]_vars

\* ------------------------------------------------- functions on their own

\* everything but the call: the engine, not started
engineVars ==
    <<givenVars, fileVars, schedule, channel_to_run, signalVars, wall,
      CURRENT_SIMULATED_TIME, VLC_PROCESS, override_file, pc, rcdLocals, stack, ret, written, handled,
      seen, launched, brk, orphans, remove_failures, polled, played>>

\* one of the calls is about to be made
InitCall(calls) ==
    /\ Start(Cfg(FALSE, SchedSolo, -1, Sec(9) - 1, TRUE))
    /\ channel_order = Channels
    /\ args_channel = ""
    /\ channel_request = NoFile
    /\ channel_state = NoFile
    /\ call \in calls
    /\ result = NoResult

\* filler_list = load_filler_videos_from_manifest(base_path, manifest_path)
\* on the file found at that path
LoadManifest ==
    /\ call.fn = "load_filler_videos_from_manifest"
    /\ result = NoResult
    /\ result' = Returned(load_filler_videos_from_manifest(call.arg))
    /\ UNCHANGED <<engineVars, call>>

InitManifest ==
    InitCall({Call("load_filler_videos_from_manifest", m) : m \in Manifests})

NextManifest == LoadManifest

SpecManifest == InitManifest /\ [][NextManifest]_vars

\* the channel lists and the contents of current_channel.txt the viewer's
\* command may find (a state file that names no channel of any list: "sky")
ChangeOrders == {<<>>, <<"bbc">>, <<"bbc", "itv">>, Channels}

ChangeStates == {NoFile, "bbc", "itv", "ch4", "sky"}

\* channel_change.py run on its own, again and again
InitChange ==
    /\ Start(Cfg(FALSE, SchedSolo, -1, Sec(9) - 1, TRUE))
    /\ channel_order \in ChangeOrders
    /\ channel_state \in ChangeStates
    /\ args_channel = ""
    /\ channel_request = NoFile
    /\ call = NoCall
    /\ result = NoResult

NextChange == ChannelChange

SpecChange == InitChange /\ [][NextChange]_vars

\* ------------------------------------------------ schedule_generator.py

\* calculate_buffer(actual_duration_seconds, round_to_minutes): the slot
\* length and the buffer; int() of the positive quotient cuts its fraction
calculate_buffer(actual_duration_seconds, round_to_minutes) ==
    LET ROUND_TO_SECONDS == Sec(round_to_minutes * 60)
        num_slots == (actual_duration_seconds + ROUND_TO_SECONDS - Sec(1))
                         \div ROUND_TO_SECONDS
        total_slot_seconds == num_slots * ROUND_TO_SECONDS
    IN  IF actual_duration_seconds <= 0
        THEN [total |-> ROUND_TO_SECONDS, buffer |-> 0]
        ELSE [total |-> total_slot_seconds,
              buffer |-> total_slot_seconds - actual_duration_seconds]

\* the durations given to calculate_buffer on its own: up to MaxUnits units
\* of round_to_minutes, half a second apart around each multiple
MaxUnits == 2

BufferDurations(round_to_minutes) ==
    UNION {{n * Sec(round_to_minutes * 60) + e : e \in (0 - 3)..3} : n \in 0..MaxUnits}

BufferCalls ==
    {Call("calculate_buffer", [actual_duration_seconds |-> d, round_to_minutes |-> r]) :
        r \in {1, 5}, d \in BufferDurations(1) \cup BufferDurations(5)}

\* total_slot_duration, buffer_seconds = calculate_buffer(...)
CalculateBuffer ==
    /\ call.fn = "calculate_buffer"
    /\ result = NoResult
    /\ result' = Returned(calculate_buffer(call.arg.actual_duration_seconds,
                                           call.arg.round_to_minutes))
    /\ UNCHANGED <<engineVars, call>>

InitBuffer == InitCall(BufferCalls)

NextBuffer == CalculateBuffer

SpecBuffer == InitBuffer /\ [][NextBuffer]_vars

\* a day, and the time of day of a moment counted from the schedule date's
\* midnight
Day == Sec(86400)

TimeOfDay(t) == t % Day

\* a <slot start= end= folder=> of the channel XML
SlotDef(start, end, folder) == [start |-> start, end |-> end, folder |-> folder]

\* the slot check, for slots that do and that do not cross midnight
SlotActive(slot_def, current_time_only) ==
    IF slot_def.start < slot_def.end
    THEN slot_def.start <= current_time_only /\ current_time_only < slot_def.end
    ELSE current_time_only >= slot_def.start \/ current_time_only < slot_def.end

\* the first slot definition active at a time of day, 0 when there is none
RECURSIVE FindSlot(_, _, _)
FindSlot(slot_definitions, current_time_only, k) ==
    IF k > Len(slot_definitions) THEN 0
    ELSE IF SlotActive(slot_definitions[k], current_time_only) THEN k
    ELSE FindSlot(slot_definitions, current_time_only, k + 1)

\* a channel XML: start_time and end_time of the day and its slots; the day
\* ends on the next date when end_time is not after start_time
ChannelXml(start_time, end_time, slots) ==
    [start_time |-> start_time, end_time |-> end_time, slots |-> slots]

EndTime(xml) ==
    IF xml.end_time <= xml.start_time THEN xml.end_time + Day ELSE xml.end_time

\* 10:00 to 10:10 in one slot; 23:55 to 00:05 in a slot across midnight;
\* 10:00 to 10:10 with no slot before 10:05
ChannelXmls ==
    {ChannelXml(Sec(36000), Sec(36600), <<SlotDef(Sec(36000), Sec(36600), "kids")>>),
     ChannelXml(Sec(86100), Sec(300), <<SlotDef(Sec(82800), Sec(3600), "late")>>),
     ChannelXml(Sec(36000), Sec(36600), <<SlotDef(Sec(36300), Sec(36600), "kids")>>)}

\* the durations of the videos of the slot folder's content XML files: half
\* a second, a second, five minutes, half a second more, and a length of 0
VideoDurations == {0, 1, Sec(1), Sec(300), Sec(300) + 1}

\* the segments generated before the run is given up as not ending
MaxItems == 3

GeneratorCalls ==
    {Call("generate_schedule_for_channel", [xml |-> x, videos |-> v]) :
        x \in ChannelXmls, v \in SUBSET VideoDurations}

\* what assign_random_video may give back: one of the folder's videos, or
\* None when it has none (0 stands for None)
AssignRandomVideo(videos) == IF videos = {} THEN {0} ELSE videos

\* the schedule item of one pass of the loop, for the slot found (0: none)
\* and the video assigned
ScheduleItem(current_datetime, slot, duration) ==
    IF slot = 0
    THEN [start_time |-> current_datetime, slot_name |-> "OFF_AIR_TIME",
          slot_duration |-> Sec(3600), duration |-> Sec(3600), buffer_seconds |-> 0]
    ELSE IF duration > 0
    THEN [start_time |-> current_datetime, slot_name |-> "slot",
          slot_duration |-> calculate_buffer(duration, 5).total,
          duration |-> duration,
          buffer_seconds |-> calculate_buffer(duration, 5).buffer]
    ELSE [start_time |-> current_datetime, slot_name |-> "slot",
          slot_duration |-> Sec(300), duration |-> 0, buffer_seconds |-> 0]

\* generate_schedule_for_channel up to the loop: current_datetime = start_time_dt
GenerateSetup ==
    /\ call.fn = "generate_schedule_for_channel"
    /\ result = NoResult
    /\ result' = [k |-> "running",
                  v |-> [current_datetime |-> call.arg.xml.start_time,
                         daily_schedule |-> <<>>]]
    /\ UNCHANGED <<engineVars, call>>

\* one pass of while current_datetime < end_time_dt
GenerateItem ==
    /\ call.fn = "generate_schedule_for_channel"
    /\ result.k = "running"
    /\ result.v.current_datetime < EndTime(call.arg.xml)
    /\ Len(result.v.daily_schedule) < MaxItems
    /\ LET current_datetime == result.v.current_datetime
           slot == FindSlot(call.arg.xml.slots, TimeOfDay(current_datetime), 1)
       IN  \E duration \in AssignRandomVideo(call.arg.videos) :
               LET schedule_item == ScheduleItem(current_datetime, slot, duration)
               IN  result' =
                       [k |-> "running",
                        v |-> [current_datetime |->
                                   current_datetime + schedule_item.slot_duration,
                               daily_schedule |->
                                   Append(result.v.daily_schedule, schedule_item)]]
    /\ UNCHANGED <<engineVars, call>>

\* the loop has ended: the list goes on to serialization
GenerateReturn ==
    /\ call.fn = "generate_schedule_for_channel"
    /\ result.k = "running"
    /\ result.v.current_datetime >= EndTime(call.arg.xml)
    /\ result' = Returned(result.v.daily_schedule)
    /\ UNCHANGED <<engineVars, call>>

InitGenerator == InitCall(GeneratorCalls)

NextGenerator == GenerateSetup \/ GenerateItem \/ GenerateReturn

SpecGenerator == InitGenerator /\ [][NextGenerator]_vars

\* ------------------------------------------------------------ tvguide2.py

\* what a call that raised leaves
Raised(e) == [k |-> "raised", v |-> e]

\* datetime.replace(hour=h): ValueError unless h is in 0..23
ReplaceHourRaises(h) == h > 23

\* time_until_next_half_hour at the time of day now (half-second ticks from
\* midnight): the .seconds of next_half_hour - now, whole seconds
time_until_next_half_hour(now_) ==
    LET hour == now_ \div Sec(3600)
        minute == (now_ % Sec(3600)) \div Sec(60)
        next_half_hour == IF minute < 30
                          THEN hour * Sec(3600) + Sec(1800)
                          ELSE (hour + 1) * Sec(3600)
    IN  IF minute >= 30 /\ ReplaceHourRaises(hour + 1)
        THEN Raised("ValueError")
        ELSE Returned((next_half_hour - now_) \div Sec(1))

\* the times of day the guide's clock is read at: the first half second,
\* second and the last half second of a minute at and before each boundary
GuideTimes ==
    {h * Sec(3600) + m * Sec(60) + e :
        h \in {0, 11, 22, 23}, m \in {0, 29, 30, 59}, e \in {0, 1, Sec(1), Sec(60) - 1}}

\* self.root.after(self.time_until_next_half_hour() * 1000, ...): the delay
\* computed, or the exception that leaves the refresh unscheduled
TimeUntilNextHalfHour ==
    /\ call.fn = "time_until_next_half_hour"
    /\ result = NoResult
    /\ result' = time_until_next_half_hour(call.arg)
    /\ UNCHANGED <<engineVars, call>>

InitGuide == InitCall({Call("time_until_next_half_hour", t) : t \in GuideTimes})

NextGuide == TimeUntilNextHalfHour

SpecGuide == InitGuide /\ [][NextGuide]_vars

\* ---------------------------------------------------------------- claims

\* the segment whose main video is being played, and how late it was reached
LaunchedSeg == schedule[launched.index]

LaunchedLate == launched.clock - LaunchedSeg.start_time

MainLaunched == launched.index # 0

\* a segment has been evaluated: the run is past its initialisation
Started == \E i \in 1..MaxSegs : seen[i] > 0

C2_LaterSegmentsFromZero ==
    (MainLaunched /\ ~launched.first) => launched.start_offset = 0

C2_Witness ==
    /\ MainLaunched
    /\ ~launched.first
    /\ LaunchedLate >= Sec(3)

C4_GapSnap ==
    (MainLaunched /\ launched.early > 0) => launched.clock = LaunchedSeg.start_time

\* C4 (amended): a segment reached more than 1 s early is waited for: in
\* dry-run the clock then equals start_time exactly, in live mode it is at or
\* past start_time by less than one poll interval; a segment reached at most
\* 1 s early is not waited for and is launched with the clock still early.
C4_WaitReachesStart ==
    (MainLaunched /\ launched.early > 0) =>
        IF launched.early > SLOT_TOLERANCE
        THEN IF DRY_RUN
             THEN launched.clock = LaunchedSeg.start_time
             ELSE /\ launched.clock >= LaunchedSeg.start_time
                  /\ launched.clock < LaunchedSeg.start_time + OVERRIDE_CHECK_INTERVAL
        ELSE launched.clock = LaunchedSeg.start_time - launched.early

C4_Witness ==
    /\ MainLaunched
    /\ DRY_RUN
    /\ launched.early > SLOT_TOLERANCE
    /\ launched.early % Sec(1) # 0
    /\ launched.clock = LaunchedSeg.start_time

\* C5: the section 8 scenario in dry-run, with no override: when the run ends
\* the one segment has been processed once and the clock reads 10:30:00.
C5_EndToEnd ==
    (/\ DRY_RUN
     /\ schedule = SchedEndToEnd
     /\ initial_start_time = Sec(36000)
     /\ written = 0
     /\ pc = "returned") =>
        /\ seen[1] = 1
        /\ CURRENT_SIMULATED_TIME = Sec(37800)

\* C6: with no override, no segment is processed a second time.
C6_NoSegmentTwice ==
    handled = 0 => \A i \in 1..MaxSegs : seen[i] <= 1

\* C7: once a segment has been evaluated, the simulated clock of a dry-run
\* never moves backward.
C7_ClockMonotonic ==
    [][(DRY_RUN /\ Started) => CURRENT_SIMULATED_TIME' >= CURRENT_SIMULATED_TIME]_vars

\* C8: no segment aborts the run: no exception leaves run_channel_day.
C8_NoSegmentAborts == pc # "crashed"

\* C9 (as stated): a break that runs to its end takes at most its window plus
\* the 1 s minimum-clip guard.
C9_WithinWindowPlusGuard ==
    (brk.W > 0 /\ ~brk.interrupted) => brk.used <= brk.W + FILLER_MIN_WINDOW

\* C9 (amended): a break that runs to its end takes at most its window plus
\* the timeout buffer of one clip plus the penalty after one failed clip.
C9_WithinWindowPlusGrace ==
    (brk.W > 0 /\ ~brk.interrupted) =>
        brk.used <= brk.W + VLC_TIMEOUT_BUFFER + FILLER_FAIL_SLEEP

C9_Witness ==
    /\ brk.W > 0
    /\ ~brk.interrupted
    /\ brk.clips > 0
    /\ brk.used = brk.W + VLC_TIMEOUT_BUFFER + FILLER_FAIL_SLEEP

\* C10 (as stated): a break over an empty manifest plays nothing and still
\* takes exactly its window.
C10_EmptyManifestWaits ==
    (brk.W > 0 /\ brk.empty) =>
        brk.clips = 0 /\ ~brk.interrupted /\ brk.used = brk.W

\* C10 (amended): a break over an empty manifest plays nothing and returns
\* not-interrupted at once: it takes none of its window.
C10_EmptyManifestSkips ==
    (brk.W > 0 /\ brk.empty) =>
        /\ brk.clips = 0
        /\ ~brk.interrupted
        /\ brk.used = 0

C10_Witness ==
    /\ brk.empty
    /\ brk.W > FILLER_MIN_WINDOW
    /\ ~DRY_RUN

\* the players that are running: the one VLC_PROCESS refers to and those the
\* engine holds no handle of any more
AlivePlayers == orphans + (IF VLC_PROCESS = "alive" THEN 1 ELSE 0)

\* the nominal end of a segment's slot
SlotEnd(i) == schedule[i].start_time + schedule[i].slot_duration_total

\* C11: a play_video call whose player is still running when the monitoring
\* loop gives up (max_runtime_seconds plus the grace buffer) kills the player
\* and returns exactly max_runtime_seconds, for main and filler alike, though
\* the wall time spent is longer. (With max_runtime_seconds = 0 the sleep is
\* 0 and the loop is left at once: the player is killed with no time spent.)
C11_TimeoutReportsMaxRuntime ==
    played.how = "timeout" =>
        /\ ret = RetFloat(played.max)
        /\ VLC_PROCESS = "None"
        /\ played.spent = IF played.max > 0 THEN played.max + VLC_TIMEOUT_BUFFER ELSE 0

C11_Witness ==
    /\ played.how = "timeout"
    /\ played.fil
    /\ played.spent > played.max
    /\ ret = RetFloat(played.max)

\* C12: one override file is acted upon exactly once: no more overrides are
\* played than files were written, a file that is gone has had its override
\* played (or the poll that deleted it is about to), and a poll that finds no
\* file reports no request.
C12_OneFileOneOverride ==
    /\ handled <= written
    /\ (/\ ~override_file
        /\ pc # "exited"
        /\ \A k \in 1..Len(stack) :
               ~(stack[k].fn = "cfo" /\ stack[k].pc \in {"terminate", "play"}))
           => handled = written
    /\ polled = "absent" => ret = RetBool(FALSE)

\* the poll that follows the consuming poll at once: the first poll of the
\* requested video's own play_video, before any sleep
C12_Witness ==
    /\ polled = "absent"
    /\ ret = RetBool(FALSE)
    /\ InFrame("pv", "poll")
    /\ IsOverridePlay
    /\ Top.el = 0
    /\ handled = written
    /\ handled > 0

\* C13: the override file is deleted before the current player is terminated
\* and before the requested video is launched, and during the playback of the
\* requested video a file is there only if a new one has been written.
C13_FileDeletedBeforeActing ==
    \A k \in 1..Len(stack) :
        stack[k].fn = "cfo" =>
            /\ stack[k].pc \in {"terminate", "play"} => ~override_file
            /\ stack[k].pc = "after_play" => (override_file => written > handled)

C13_Witness ==
    /\ InFrame("cfo", "terminate")
    /\ VLC_PROCESS = "alive"
    /\ ~override_file

\* C14 (as stated): a poll whose delete failed has honored the request all the
\* same: it reports an override, and every request written has been acted upon.
C14_FailedDeleteStillHonored ==
    polled = "failed" => (IsTrue(ret) /\ handled = written)

\* what check_for_override does instead: a poll whose delete failed reports no
\* override, leaves the player and the file alone and acts on nothing; a
\* request is acted upon only once its file has been deleted, hence once.
C14_FailedDeleteNotHonored ==
    /\ polled = "failed" =>
        /\ ret = RetBool(FALSE)
        /\ override_file
        /\ handled < written
        /\ InFrame("pv", "poll") => VLC_PROCESS = "alive"
    /\ handled + (IF override_file THEN 1 ELSE 0) <= written

\* C15: once an override has been handled the engine's next step is a new scan
\* of the schedule (it re-reads the clock and locates; it neither fills nor
\* advances), and the scan is made against the engine's clock as it then reads.
C15_OverrideThenRelocate ==
    [][(InEngine /\ polled = "acted" /\ pc' # "exited") =>
          /\ stack' = <<>>
          /\ pc \notin {"renow", "locate"} => pc' = "renow"
          /\ pc = "renow" => (pc' = "locate" /\ now' = Clock')]_vars

\* C16: the segments the engine begins to process follow one another in
\* schedule order: none is begun after a later one has been.
C16_SegmentsInOrder ==
    [][\A i \in 1..MaxSegs :
          seen'[i] # seen[i] => \A j \in (i + 1)..MaxSegs : seen[j] = 0]_vars

\* C17: at most one player is running, and when play_video has returned the
\* handle is cleared and no player is running.
C17_OnePlayerAtMost ==
    /\ AlivePlayers <= 1
    /\ played.how # "" => (VLC_PROCESS = "None" /\ AlivePlayers = 0)

\* an override video that was itself interrupted by an override
C17_Witness ==
    /\ played.how = "interrupted"
    /\ played.override
    /\ AlivePlayers = 0
    /\ handled >= 2

\* C18: when check_for_override launches the requested video no player is
\* running (the one found running has been terminated and reaped), and the
\* video is played from offset 0 under the ceiling of 7200 s.
C18_OverrideKillsThenPlaysFromZero ==
    \A k \in 1..Len(stack) :
        /\ (stack[k].fn = "cfo" /\ stack[k].pc = "play") =>
               (VLC_PROCESS # "alive" /\ AlivePlayers = 0)
        /\ (k > 1 /\ stack[k].fn = "pv" /\ stack[k - 1].fn = "cfo") =>
               /\ stack[k].arg = Sec(7200)
               /\ stack[k].off = 0
               /\ ~stack[k].fil
               /\ AlivePlayers <= 1

C18_Witness ==
    /\ InFrame("pv", "loop")
    /\ IsOverridePlay
    /\ stack[Len(stack) - 1].why = "killed"
    /\ VLC_PROCESS = "alive"
    /\ Top.arg # launched.max_run_time

\* C19: after a failed main playback the filler break is given the time left
\* to the slot's nominal end at that moment, and the engine then advances: the
\* break does not abort the run.
C19_FailedMainFilledToSlotEnd ==
    /\ (InFrame("rfb", "entry") /\ Top.why = "failed") =>
           Top.arg = SlotEnd(current_program_index) - Clock
    /\ pc = "crashed" => brk.why # "failed"

\* C20 (as stated): after a main playback that timed out or completed, any
\* time left in the window is given to a filler break, and with no time left
\* the engine advances directly.
C20_AnyRemainderFilled ==
    [][(At("after_main") /\ ret.k = "float" /\ ~IsInterrupted(ret) /\ pc' # "exited") =>
          IF time_available_seconds - ret.v > 0
          THEN /\ stack' # <<>>
               /\ stack'[1].fn = "rfb"
               /\ stack'[1].arg = time_available_seconds - ret.v
          ELSE pc' = "advance" /\ stack' = <<>>]_vars

\* C20 (amended): the driver reports max_run_time; a remainder of more than
\* 1.0 s is given, exactly, to a filler break, after which (no override having
\* interrupted it) the engine advances; with a remainder of 1.0 s or less the
\* engine advances directly.
C20_RemainderOverToleranceFilled ==
    [][/\ (At("after_main") /\ ret.k = "float" /\ ~IsInterrupted(ret) /\ pc' # "exited") =>
            /\ ret.v = launched.max_run_time
            /\ IF time_available_seconds - ret.v > SLOT_TOLERANCE
               THEN /\ stack' # <<>>
                    /\ stack'[1].fn = "rfb"
                    /\ stack'[1].why = "remainder"
                    /\ stack'[1].arg = time_available_seconds - ret.v
                    /\ pc' = "after_filler"
               ELSE pc' = "advance" /\ stack' = <<>>
       /\ (At("after_filler") /\ brk.why = "remainder" /\ pc' # "exited") =>
            pc' = IF IsTrue(ret) THEN "renow" ELSE "advance"]_vars

C20_Witness ==
    /\ At("after_filler")
    /\ brk.why = "remainder"
    /\ brk.W > SLOT_TOLERANCE
    /\ ~brk.interrupted
    /\ brk.used >= brk.W

\* C21: LOCATING selects the first record, in list order, whose slot ends
\* after the clock, and ends the run when there is none; it never selects a
\* record whose slot has elapsed.
C21_LocateSelectsFirstUnelapsed ==
    [][(At("locate") /\ pc' # "exited") =>
          IF Unelapsed(1, now) = {}
          THEN pc' = "returned"
          ELSE /\ pc' = "slot_top"
               /\ current_program_index' = SetMin(Unelapsed(1, now))]_vars

\* what LOCATING does keep: the record it selects has not elapsed, and in a
\* live run it is the first such record of the list
C21_LocateNeverSelectsElapsed ==
    [][(At("locate") /\ pc' = "slot_top") =>
          /\ current_program_index' \in Unelapsed(1, now)
          /\ ~DRY_RUN => current_program_index' = SetMin(Unelapsed(1, now))]_vars

\* C24: when there is no schedule file for the channel and day, the process
\* does not end: it goes on trying to load (an operator's signal aside).
C24_NoScheduleKeepsRetrying ==
    ~schedule_data.found => pc \in {"main", "load", "exited"}

\* C25: when the player binary is missing, the failed launch ends the
\* process with a non-zero status (an operator's signal aside): the engine
\* takes no further step of the schedule walk.
C25_MissingPlayerIsFatal ==
    [][(~cvlc_present /\ played.how = "launch_failed" /\ pc' # "exited")
           => ExitStatus' = 1]_vars

\* C26: a schedule with invalid records and at least one valid record is
\* usable: the run never aborts on an invalid record, wherever it sits, and
\* a dry-run that starts before every slot and ends has processed every valid
\* record.
C26_InvalidRecordsDropped ==
    /\ (pc = "crashed" /\ current_program_index \in 1..Len(schedule)) =>
           ~Malformed(schedule[current_program_index])
    /\ (DRY_RUN /\ initial_start_time = Sec(9) /\ pc = "returned" /\ handled = 0) =>
           \A i \in 1..Len(schedule) : ~Malformed(schedule[i]) => seen[i] > 0

\* the invalid records LOCATING's scan does pass over: a run over a schedule
\* whose only invalid record comes first processes the valid one
C26_LeadingInvalidRecordSkipped ==
    (schedule = SchedBadFirst /\ pc = "returned" /\ handled = 0) => seen[2] > 0

\* C27: the list the engine walks is in start_time order whatever the order
\* of the file.
C27_WalkedListSorted ==
    \A i, j \in 1..Len(schedule) :
        (i < j /\ ~Malformed(schedule[i]) /\ ~Malformed(schedule[j])) =>
            schedule[i].start_time <= schedule[j].start_time

\* C22: a channel request written by channel_change.py is consumed by the
\* host of the engine: the host does not end its run and leave the request
\* file behind, where nothing reads it any more.
C22_RequestConsumed ==
    pc = "returned" => channel_request = NoFile

\* what the host does instead: no step of it removes a request file or
\* changes the channel it runs
C22_RequestNeverConsumed ==
    [][/\ channel_request # NoFile => channel_request' # NoFile
       /\ channel_to_run # "" => channel_to_run' = channel_to_run]_vars

\* C23: while the host runs a channel, current_channel.txt names that
\* channel.
C23_StateFileNamesRunningChannel ==
    (channel_to_run # "" /\ ExitStatus = 0 - 1) => channel_state = channel_to_run

\* what the host does instead: it never writes current_channel.txt, and the
\* channel it runs is the argument or the first channel, whatever the state
\* file names
C23_StateFileIgnored ==
    /\ [][channel_state' = channel_state]_vars
    /\ [](channel_to_run # "" =>
            channel_to_run = IF ChannelIndex(args_channel) # 0 THEN args_channel
                             ELSE channel_order[1])

\* C28: during a live wait for a slot the override file is polled at
\* intervals of at most OVERRIDE_CHECK_INTERVAL: every pass of the wait polls
\* before it sleeps, no sleep is longer than the interval, and the wait ends
\* with one more poll. A poll that reports an override ends the wait at once:
\* the engine goes to re-location without sleeping again and without playing
\* the segment it waited for.
C28_WaitPollsEveryInterval ==
    [][/\ (At("wait_loop") /\ pc' # "exited") =>
              /\ pc' \in {"wait_poll", "wait_last"}
              /\ Len(stack') = 1 /\ stack'[1].fn = "cfo" /\ stack'[1].pc = "entry"
              /\ wall' = wall
       /\ (At("wait_poll") /\ pc' # "exited") =>
              IF IsTrue(ret)
              THEN pc' = "renow" /\ wall' = wall /\ launched' = launched
              ELSE pc' = "wait_loop" /\ wall' - wall <= OVERRIDE_CHECK_INTERVAL
       /\ (At("wait_last") /\ pc' # "exited") =>
              /\ wall' = wall
              /\ pc' = IF IsTrue(ret) THEN "renow" ELSE "exec"
       /\ (~DRY_RUN /\ At("slot_eval") /\ pc' = "exec") => time_to_start' <= SLOT_TOLERANCE]_vars

\* the second poll of a wait, a second after the first, has found a request
\* and played it
C28_Witness ==
    /\ At("wait_poll")
    /\ IsTrue(ret)
    /\ wall - wait_start >= OVERRIDE_CHECK_INTERVAL
    /\ handled = 1

\* C29: run_filler_break polls the override file between any two clips, a
\* failed clip included: a clip is launched only by the step that has just
\* read a poll reporting no override, and after a clip the break is back at
\* the head of its loop, whose next step is the poll or the end of the break.
\* Once a poll or a clip reports an override the break launches nothing more
\* and returns interrupted.
C29_PollBetweenClips ==
    [][/\ (Len(stack') = 2 /\ stack'[1].fn = "rfb" /\ stack'[2].fn = "pv"
           /\ stack'[2].pc = "entry" /\ Len(stack) = 1) =>
              /\ InFrame("rfb", "poll")
              /\ ret = RetBool(FALSE)
       /\ (InFrame("rfb", "played") /\ ~IsInterrupted(ret) /\ pc' # "exited") =>
              InFrame("rfb", "loop")'
       /\ (InFrame("rfb", "loop") /\ pc' # "exited") =>
              \/ stack' = <<>> /\ ret' = RetBool(FALSE)
              \/ Len(stack') = 2 /\ stack'[2].fn = "cfo" /\ stack'[2].pc = "entry"
                 /\ stack'[1].pc = "poll"
       /\ (/\ \/ InFrame("rfb", "poll") /\ IsTrue(ret)
              \/ InFrame("rfb", "played") /\ IsInterrupted(ret)
           /\ pc' # "exited") =>
              /\ stack' = <<>>
              /\ ret' = RetBool(TRUE)
              /\ brk'.interrupted]_vars

\* the poll after a clip of the break has found a request and played it
C29_Witness ==
    /\ InFrame("rfb", "poll")
    /\ IsTrue(ret)
    /\ Top.clips >= 1

C30_WitnessShortOfWindow ==
    /\ ~cvlc_present
    /\ brk.clips >= 1
    /\ ~brk.interrupted
    /\ brk.used < brk.W

\* C31: a play_video call whose player exited with code 0 before the external
\* timeout has returned max_runtime_seconds for main content (a requested
\* video included) and the measured run time for a filler clip, with the
\* handle cleared.
C31_CleanExitReports ==
    played.how = "exit0" =>
        /\ ret = RetFloat(IF played.fil THEN played.spent ELSE played.max)
        /\ VLC_PROCESS = "None"
        /\ played.spent <= played.max + VLC_TIMEOUT_BUFFER

\* a filler clip that exited cleanly before its ceiling: the measured time
C31_Witness ==
    /\ played.how = "exit0"
    /\ played.fil
    /\ played.spent < played.max
    /\ ret = RetFloat(played.spent)

\* a main show that exited cleanly before its ceiling: the ceiling
C31_WitnessMain ==
    /\ played.how = "exit0"
    /\ ~played.fil
    /\ ~played.override
    /\ played.spent < played.max
    /\ ret = RetFloat(played.max)

\* C32: play_video never launches the player when start_offset is at or past
\* the end of the content: every launch has start_offset < duration.
C32_NoLaunchPastContentEnd ==
    [][(InFrame("pv", "entry") /\ InFrame("pv", "loop")') => Top.off < Top.dur]_vars

\* what run_channel_day keeps for main content: a main show or a requested
\* video is launched only with start_offset < duration
C32_MainNeverLaunchedPastEnd ==
    [][(InFrame("pv", "entry") /\ InFrame("pv", "loop")' /\ ~Top.fil) =>
           Top.off < Top.dur]_vars

\* a record with a path and a duration that float() takes
ValidRecord(file_elem) ==
    /\ file_elem.name \notin {NO_ATTR, ""}
    /\ file_elem.length \in {"0", "1", "12.5", "100"}

\* the positions of the valid records of a file, in file order
ValidPositions(files) == {i \in 1..Len(files) : ValidRecord(files[i])}

\* C33: load_filler_videos_from_manifest returns, in file order, exactly the
\* records with a path and a parseable numeric duration (the others are
\* skipped, the load goes on), and the empty list for a file that is not there.
C33_LoaderKeepsValidRecords ==
    (call.fn = "load_filler_videos_from_manifest" /\ result # NoResult) =>
        LET files == call.arg.files
            filler_list == result.v
        IN  /\ result.k = "returned"
            /\ ~call.arg.exists => filler_list = <<>>
            /\ (call.arg.exists /\ call.arg.wellformed) =>
                   /\ Len(filler_list) = Cardinality(ValidPositions(files))
                   /\ \E at \in [1..Len(filler_list) -> ValidPositions(files)] :
                          /\ \A i, j \in 1..Len(filler_list) : i < j => at[i] < at[j]
                          /\ \A i \in 1..Len(filler_list) :
                                 /\ filler_list[i].path = files[at[i]].name
                                 /\ filler_list[i].duration
                                        = ParseFloat(files[at[i]].length).v

\* a valid record after a record with a malformed duration was loaded
C33_Witness ==
    /\ call.fn = "load_filler_videos_from_manifest"
    /\ result = Returned(<<[path |-> "a.mp4", duration |-> Sec(12) + 1]>>)
    /\ call.arg.files = <<FileElem("a.mp4", "abc"), FileElem("a.mp4", "12.5")>>

\* the manifest file was missing and the empty list came back
C33_WitnessMissing ==
    /\ call.fn = "load_filler_videos_from_manifest"
    /\ ~call.arg.exists
    /\ result = Returned(<<>>)

\* C34: after the operator's interrupt, in whatever state it arrived
\* (waiting, playing main content, filler or a requested video), no player
\* is left running and the host process has exited with status 0.
C34_InterruptStopsPlayerAndExitsZero ==
    signalled_in # "" =>
        /\ AlivePlayers = 0
        /\ VLC_PROCESS # "alive"
        /\ ExitStatus = 0

\* the interrupt arrived in each of the four states, a player running in
\* the three that play; one witness per state
C34_Witness == signalled_in = "override" /\ VLC_PROCESS = "terminated"

C34_WitnessMain == signalled_in = "main" /\ VLC_PROCESS = "terminated"

C34_WitnessFiller == signalled_in = "filler" /\ VLC_PROCESS = "terminated"

C34_WitnessWaiting == signalled_in = "waiting" /\ ExitStatus = 0

\* the smallest multiple of unit that is at least d
SmallestMultipleAtLeast(d, unit) ==
    CHOOSE m \in {n * unit : n \in 0..(d \div unit + 1)} :
        /\ m >= d
        /\ \A n \in 0..(d \div unit + 1) : n * unit >= d => m <= n * unit

\* C36: for d > 0 calculate_buffer returns the smallest multiple of
\* round_to_minutes*60 that is >= d as total, and buffer = total - d with
\* 0 <= buffer < round_to_minutes*60; for d <= 0 one unit and buffer 0.
C36_BufferRoundsUp ==
    (call.fn = "calculate_buffer" /\ result # NoResult) =>
        LET d == call.arg.actual_duration_seconds
            unit == Sec(call.arg.round_to_minutes * 60)
        IN  IF d > 0
            THEN /\ result.v.total = SmallestMultipleAtLeast(d, unit)
                 /\ result.v.buffer = result.v.total - d
                 /\ 0 <= result.v.buffer /\ result.v.buffer < unit
            ELSE result.v.total = unit /\ result.v.buffer = 0

\* what the code keeps: the claim, for durations of whole seconds
C36_WholeSecondsRoundUp ==
    (/\ call.fn = "calculate_buffer" /\ result # NoResult
     /\ call.arg.actual_duration_seconds % Sec(1) = 0) =>
        LET d == call.arg.actual_duration_seconds
            unit == Sec(call.arg.round_to_minutes * 60)
        IN  IF d > 0
            THEN /\ result.v.total = SmallestMultipleAtLeast(d, unit)
                 /\ result.v.buffer = result.v.total - d
                 /\ 0 <= result.v.buffer /\ result.v.buffer < unit
            ELSE result.v.total = unit /\ result.v.buffer = 0

\* a buffer was computed for a duration of whole seconds above one unit
C36_WitnessWholeSeconds ==
    /\ call.fn = "calculate_buffer"
    /\ call.arg.actual_duration_seconds = Sec(301)
    /\ result = Returned([total |-> Sec(600), buffer |-> Sec(299)])

\* the list the generator is building or has returned
Generated ==
    IF call.fn = "generate_schedule_for_channel" /\ result # NoResult
    THEN IF result.k = "running" THEN result.v.daily_schedule ELSE result.v
    ELSE <<>>

\* C35: every generated segment has slot_duration_total > 0 and starts where
\* the one before it ends, so start times strictly increase and no two
\* segments overlap (which is what makes the generation loop end).
C35_SegmentsAdvance ==
    \A i \in 1..Len(Generated) :
        /\ Generated[i].slot_duration > 0
        /\ i > 1 =>
               /\ Generated[i].start_time
                      = Generated[i - 1].start_time + Generated[i - 1].slot_duration
               /\ Generated[i].start_time > Generated[i - 1].start_time

\* what the code keeps: each segment starts where the one before it ends,
\* and with every video at least a second long the slots are positive
C35_SegmentsContiguous ==
    \A i \in 1..Len(Generated) :
        /\ i > 1 =>
               Generated[i].start_time
                   = Generated[i - 1].start_time + Generated[i - 1].slot_duration
        /\ (\A d \in call.arg.videos : d = 0 \/ d >= Sec(1)) =>
               Generated[i].slot_duration > 0

\* a generation that never leaves its loop: the list is full of segments
\* that all start at the same moment
C35_WitnessStuck ==
    /\ Len(Generated) = MaxItems
    /\ result.k = "running"
    /\ \A i \in 1..MaxItems : Generated[i].start_time = Generated[1].start_time

\* a dry run in which no override has been requested
DryNoOverride == DRY_RUN /\ written = 0 /\ handled = 0

\* the engine leaves the segment it has evaluated: section E, or the skip of
\* a slot with no time left
SegmentFinished ==
    /\ pc \in {"advance", "exec"}
    /\ current_program_index' = current_program_index + 1

\* C37: in dry-run without overrides the simulated clock does not exceed a
\* segment's nominal end when the engine leaves the segment, and the main run
\* time plus the filler window requested for it do not exceed the time that
\* remained in the slot when it was evaluated.
C37_DryClockWithinSlot ==
    [][DryNoOverride =>
          /\ SegmentFinished =>
                 CURRENT_SIMULATED_TIME' <= SlotEnd(current_program_index)
          /\ (pc = "exec" /\ pc' = "after_main") =>
                 launched'.max_run_time <= time_available_seconds'
          /\ (pc \in {"exec", "after_main"} /\ pc' = "after_filler") =>
                 stack'[1].arg + (IF pc = "after_main" /\ ret.k = "float"
                                  THEN launched.max_run_time ELSE 0)
                     <= time_available_seconds']_vars

\* what the code keeps for every schedule: the requested run time and window
\* stay within the time left, and a segment that had time left when it was
\* evaluated is left with the clock at or before its nominal end
C37_DryWindowWithinTimeLeft ==
    [][DryNoOverride =>
          /\ (SegmentFinished /\ pc = "advance") =>
                 CURRENT_SIMULATED_TIME' <= SlotEnd(current_program_index)
          /\ (pc = "exec" /\ pc' = "after_main") =>
                 launched'.max_run_time <= time_available_seconds'
          /\ (pc \in {"exec", "after_main"} /\ pc' = "after_filler") =>
                 stack'[1].arg + (IF pc = "after_main" /\ ret.k = "float"
                                  THEN launched.max_run_time ELSE 0)
                     <= time_available_seconds']_vars

\* and for a file that is in start_time order the clock is at or before the
\* nominal end of every segment the engine leaves
C37_DryClockWithinSlotOfOrderedFile ==
    [][(DryNoOverride /\ C27_WalkedListSorted /\ SegmentFinished) =>
           CURRENT_SIMULATED_TIME' <= SlotEnd(current_program_index)]_vars

\* a dry run has left a segment after its main show and a filler break
C37_WitnessOrdered ==
    /\ DryNoOverride
    /\ C27_WalkedListSorted
    /\ pc = "slot_top"
    /\ current_program_index = 2
    /\ CURRENT_SIMULATED_TIME = SlotEnd(1)

\* C38: main content is launched only with a run window of at least 5 s; a
\* slot whose window is shorter gets a filler break for all the time left in
\* the slot, and a slot with at most 1 s left is skipped: nothing is played.
C38_ShortWindowGetsFiller ==
    [][(pc = "exec" /\ pc' # "exited") =>
          LET program == schedule[current_program_index]
              left == program.slot_duration_total - (Clock - program.start_time)
              window == Min(program.duration, left)
          IN  /\ left <= Sec(1) =>
                     /\ stack' = <<>>
                     /\ pc' = "slot_top"
                     /\ current_program_index' = current_program_index + 1
                     /\ VLC_PROCESS' = VLC_PROCESS
              /\ (left > Sec(1) /\ window < Sec(5)) =>
                     /\ Len(stack') = 1
                     /\ stack'[1].fn = "rfb" /\ stack'[1].pc = "entry"
                     /\ stack'[1].arg = left
              /\ (stack' # <<>> /\ stack'[1].fn = "pv") =>
                     /\ stack'[1].arg >= Sec(5)
                     /\ stack'[1].arg = window]_vars

\* a slot reached with less than 5 s but more than 1 s of window is in its
\* filler break, live, the content itself long enough to play
C38_Witness ==
    /\ ~DRY_RUN
    /\ pc = "after_filler"
    /\ stack # <<>> /\ stack[1].fn = "rfb" /\ stack[1].why = "short"
    /\ stack[1].arg < Sec(5)
    /\ schedule[current_program_index].duration >= Sec(5)

\* a slot with at most 1 s left has been skipped
C38_WitnessSkipped ==
    /\ pc = "slot_top"
    /\ current_program_index > 1
    /\ time_available_seconds <= Sec(1)
    /\ seen[current_program_index - 1] > 0

\* the index of the channel the state file names, 0 when it names none
CurrentIndex ==
    IF \E k \in 1..Len(channel_order) : channel_order[k] = channel_state
    THEN (CHOOSE k \in 1..Len(channel_order) : channel_order[k] = channel_state) - 1
    ELSE 0

\* the channel after (up) or before (down) index i, around both ends
Neighbour(direction, i) ==
    channel_order[((IF direction = "up" THEN i + 1 ELSE i - 1 + Len(channel_order))
                      % Len(channel_order)) + 1]

\* C39: channel_change selects channel_order[(i+1) mod n] for up and
\* channel_order[(i-1) mod n] for down, i the index of the current channel or
\* 0 when the state file is missing or names an unknown channel, and writes
\* the request file only when that channel is not the current one.
C39_SelectsNeighbour ==
    (call.fn = "channel_change" /\ channel_order # <<>>) =>
        /\ result.v.new_channel = Neighbour(call.arg, CurrentIndex)
        /\ result.v.wrote <=> result.v.new_channel # channel_state
        /\ result.v.wrote => channel_request = result.v.new_channel

\* what the code keeps: the claim, whenever main() is reached
C39_SelectsNeighbourWhenRun ==
    (call.fn = "channel_change" /\ channel_order # <<>> /\ result.v.error = "") =>
        /\ result.v.new_channel = Neighbour(call.arg, CurrentIndex)
        /\ result.v.wrote <=> result.v.new_channel # channel_state
        /\ result.v.wrote => channel_request = result.v.new_channel

\* up from the last channel wrapped around to the first and was written
C39_WitnessWrap ==
    /\ call = Call("channel_change", "up")
    /\ channel_order = Channels /\ channel_state = "ch4"
    /\ result.v.new_channel = "bbc" /\ result.v.wrote
    /\ channel_request = "bbc"

\* with one channel the selected channel is the current one: nothing written
C39_WitnessSame ==
    /\ call.fn = "channel_change"
    /\ channel_order = <<"bbc">> /\ channel_state = "bbc"
    /\ result.v.error = "" /\ ~result.v.wrote
    /\ channel_request = NoFile

\* the whole seconds from a time of day to the next :00 or :30 after it
SecondsToBoundary(t) == (Sec(1800) - (t % Sec(1800))) \div Sec(1)

\* C40: for every time of day time_until_next_half_hour returns, without
\* error, the whole seconds to the next :00 or :30, a value in 0..1800.
C40_ReturnsSecondsToBoundary ==
    (call.fn = "time_until_next_half_hour" /\ result # NoResult) =>
        /\ result.k = "returned"
        /\ result.v = SecondsToBoundary(call.arg)
        /\ result.v \in 0..1800

\* what the code keeps: the claim, for the times before 23:30
C40_ReturnsBeforeLastHalfHour ==
    (/\ call.fn = "time_until_next_half_hour" /\ result # NoResult
     /\ call.arg < Sec(84600)) =>
        /\ result.k = "returned"
        /\ result.v = SecondsToBoundary(call.arg)
        /\ result.v \in 0..1800

\* and from 23:30 on it always raises
C40_RaisesInLastHalfHour ==
    (/\ call.fn = "time_until_next_half_hour" /\ result # NoResult
     /\ call.arg >= Sec(84600)) =>
        result = Raised("ValueError")

\* half a second before 23:00 the delay is 0 s; at 23:30 the call raised
C40_WitnessZero ==
    /\ call = Call("time_until_next_half_hour", Sec(82800) - 1)
    /\ result = Returned(0)

C40_WitnessRaised ==
    /\ call = Call("time_until_next_half_hour", Sec(84600))
    /\ result = Raised("ValueError")

====
